---------------------------- MODULE Spec2Model ----------------------------
(***************************************************************************)
(* Model of the raster core of cropscape-clip:                             *)
(*   reclassify_raster               (src/reclassify_raster.py)            *)
(*   compute_raster_class_difference (src/compute_raster_class_difference) *)
(*   calculate_pixel_trajectories    (src/calculate_pixel_trajectories.py) *)
(* and of its parallel drivers:                                            *)
(*   multiprocess_counter, watch_counter (src/multiprocess_counter.py)     *)
(*   process_layer.batched_records   (src/filter_spatial_within.py)        *)
(*   generate_summary_data       (src/src/apply_cdl_data_to_parcels.py)    *)
(*   reclassify_rasters              (src/reclassify_raster.py)            *)
(*                                                                         *)
(* A raster band is a sequence of rows, each a sequence of integer pixel   *)
(* values.  Python strings are sequences of one-character strings, so that *)
(* str.endswith, concatenation and slicing are computed on characters.     *)
(* A Python dict is a sequence of entries in insertion order, which is the *)
(* order in which .items() iterates.                                       *)
(*                                                                         *)
(* Pixel arithmetic: the bands are uint8; numpy.where(cond, key * -1, a)   *)
(* promotes to a signed type that holds -255..255 (value-based casting of  *)
(* the numpy the code was written for), so all pixel values stay exact     *)
(* integers and are modelled as Int.                                       *)
(***************************************************************************)
EXTENDS Integers, Sequences, FiniteSets, TLC

VARIABLES
  rc_pc,            \* reclassify_raster: "idle" | "loop" | "done"
  rc_band1,         \* band1 = raster.read(1)
  rc_remap,         \* remap: PixelRemapSpecs
  rc_i,             \* number of remap items already applied by the for loop
  rc_reclassified,  \* the working array `reclassified`
  rc_file,          \* band written to output_raster_path (NoArray: not written)
  df_pc,            \* compute_raster_class_difference: "idle" | "start" | "loop" | "done" | "error"
  df_from,          \* from_data
  df_to,            \* to_data
  df_remap,         \* remap: PixelDiffSpecs
  df_out,           \* whether output_diff_rast was given
  df_i,             \* number of remap items already applied
  df_reclassified,  \* the working array `reclassified`
  df_dir,           \* whether the output directory exists
  df_file,          \* band written to output_diff_rast (NoArray: not written)
  df_ret,           \* the returned array (NoArray: nothing returned)
  tr_pc,            \* calculate_pixel_trajectories: "idle" | "boolean" | "diff" | "tensor" | "walk" | "save" | "done"
  tr_folder,        \* raster_folder_path: year -> band of the consolidated raster
  tr_spec,          \* reclass_spec
  tr_ci,            \* number of reclass_spec items already visited by the current class loop
  tr_bool,          \* temp folder boolean_class/: sequence of [class_num, files: year -> band]
  tr_diff,          \* diff_dict: sequence of [class_num, layers: sequence of [key, array]]
  tr_array,         \* the tensor array[pixel][class_index][year_range_index]
  tr_faults,        \* the cells <<pixel, class_index, year_range_index>> whose assignment raises
  tr_traj,          \* the value of `trajectory` at the end of each pixel's walk
  tr_counts,        \* pixel_trajectories_counts
  tr_json,          \* dict dumped to output_trajectories_file (NoDict: not written)
  tr_ret,           \* the returned dict, as its items in order (NoDict: nothing returned)
  cn_scope,         \* multiprocess_counter: "idle" | "entered" (Manager serving) | "exited" (Manager shut down)
  cn_value,         \* shared_counter.value
  cn_locked,        \* whether `lock` is held
  cn_wpc,           \* watch_counter: "none" | "start" | "acquire" | "get" | "release" | "compare" | "sleep" | "ended"
  cn_last,          \* last_value
  cn_current,       \* current_value
  cn_calls,         \* the invocations of callback so far, each [new, old]
  cn_exc,           \* the exception that ended watch_counter: <<>> or <<[message, caught]>>
  cn_out,           \* the lines watch_counter has printed
  wk_size,          \* the features given to each submitted task (len(features))
  wk_pc,            \* each task: "new" | "feature" | "get" | "set" | "release" | "returned" | "raised"
  wk_left,          \* features each task has still to report
  wk_tmp,           \* the value each task read in `shared_counter.value += 1`
  fs_pc,            \* batched_records: "idle" | "enter" | "submit" | "exit" | "compile" | "done" | "raised"
  fs_i,             \* number of chunks submitted
  gs_pc,            \* generate_summary_data: "idle" | "enter" | "submit" | "wait" | "results" | "exit" | "done" | "raised"
  gs_i,             \* number of years submitted
  gs_raise,         \* whether the results loop raised a task's exception
  rr_pc,            \* reclassify_rasters: "idle" | "parallel" | "sequential" | "returned" | "raised"
  rr_task,          \* each file's task: "new" | "queued" | "done" | "failed"
  rr_i,             \* number of files submitted (or processed, when sequential)
  rr_bar,           \* the progress bar's count
  rr_out,           \* the files of files_to_process written to output_folder
  pt_parcelnumb,    \* feature['parcelnumb'] of each feature of parcels_gdf
  pt_workers,       \* max_workers of the trajectories' ProcessPoolExecutor
  pt_pc,            \* each trajectories task: "new" | "queued" | "boolean" | "diff" | "rmtree" | "returned" | "raised"
  pt_i,             \* number of features submitted
  pt_temp,          \* the folders ./working/temp/trajectories/{parcelnumb} that exist
  pt_drv,           \* the trajectories stage: "idle" | "submit" | "done" | "raised"
  pl_layer,         \* process_layer: the layer's features, each [id, within]
  pl_invert,        \* invert
  pl_futures,       \* each future: [features (its chunk), state "new" | "queued" | "done", res]
  pl_completed,     \* the futures in the order they completed
  pl_records,       \* records
  pl_pc,            \* process_layer: "idle" | "submit" | "compiled"
  ro_list,          \* consolidated_rasters_list, as the years of its rasters
  ro_reordered,     \* reordered_consolidated_rasters_list
  ro_i,             \* number of rasters of the reordered list summarised
  ro_summary,       \* cropland_year of each summary_data entry, in order
  ro_pc,            \* the summary stage: "idle" | "listed" | "summary" | "done"
  dt_columns,       \* the classes c with a column pixel_counts.c in tidy_df
  dt_counts,        \* one row's pixel_counts.c for each class c with a column
  dt_developed_total,               \* the row's developed_total
  dt_cropland_and_grassland_total,  \* the row's cropland_and_grassland_total
  dt_pc             \* calculate_and_rename_columns: "idle" | "called" | "developed" | "done"

rcVars == <<rc_pc, rc_band1, rc_remap, rc_i, rc_reclassified, rc_file>>
dfVars == <<df_pc, df_from, df_to, df_remap, df_out, df_i, df_reclassified, df_dir, df_file, df_ret>>
trVars == <<tr_pc, tr_folder, tr_faults, tr_spec, tr_ci, tr_bool, tr_diff, tr_array, tr_traj, tr_counts, tr_json, tr_ret>>
cnVars == <<cn_scope, cn_value, cn_locked, cn_wpc, cn_last, cn_current, cn_calls, cn_exc, cn_out>>
wkVars == <<wk_size, wk_pc, wk_left, wk_tmp>>
fsVars == <<fs_pc, fs_i>>
gsVars == <<gs_pc, gs_i, gs_raise>>
rrVars == <<rr_pc, rr_task, rr_i, rr_bar, rr_out>>
ptVars == <<pt_parcelnumb, pt_workers, pt_pc, pt_i, pt_temp, pt_drv>>
plVars == <<pl_layer, pl_invert, pl_futures, pl_completed, pl_records, pl_pc>>
roVars == <<ro_list, ro_reordered, ro_i, ro_summary, ro_pc>>
dtVars == <<dt_columns, dt_counts, dt_developed_total, dt_cropland_and_grassland_total, dt_pc>>
rasterVars == <<rcVars, dfVars, trVars>>
extVars == <<ptVars, plVars, roVars, dtVars>>
parVars == <<cnVars, wkVars, fsVars, gsVars, rrVars, extVars>>
vars == <<rcVars, dfVars, trVars, parVars>>

---------------------------------------------------------------------------
(* Bounds of the explored inputs. *)

\* largest number of pixels of a raster given to reclassify_raster or to
\* compute_raster_class_difference
MaxRasterPixels == 2

\* largest number of cells (rows * columns * years) of a raster stack given
\* to calculate_pixel_trajectories
MaxStackCells == 6

\* largest number of features of a layer given to batched_records, and of
\* features * years given to generate_summary_data
MaxFeatures == 3

\* largest number of rasters in the input folder of reclassify_rasters
MaxBatchFiles == 3

\* features of the layer filtered while the callback may fail
MaxWatched == 2

\* cells (pixels times years) of the folders whose tensor assignments may raise
MaxFaultyCells == 4

\* assignments that raise while one tensor is filled
MaxFaults == 1

\* distinct values of the parcelnumb column
MaxParcelNumbs == 2

\* worker processes of the trajectories' pool
MaxPool == 2

\* geometries of the filter layer
MaxFilterGeoms == 1

\* consolidated rasters (years) of the folder the summary stage lists
MaxFolderYears == 5

\* largest pixel count of a class in a row of tidy_df
MaxPixelCount == 2

---------------------------------------------------------------------------
(* Generic helpers. *)

NoArray == <<>>

Range(s) == {s[i] : i \in DOMAIN s}

Abs(n) == IF n < 0 THEN 0 - n ELSE n

\* rows x cols bands over the pixel values `codes`
Bands(rows, cols, codes) == [1..rows -> [1..cols -> codes]]

\* every band with at most n pixels
BandsUpTo(n, codes) ==
  UNION {Bands(s[1], s[2], codes) : s \in {t \in (1..n) \X (1..n) : t[1] * t[2] <= n}}

\* numpy's ndarray.shape of a 2-D band
Shape(a) == <<Len(a), Len(a[1])>>

\* the cells of a band
Cells(a) == {<<i, j>> : i \in 1..Len(a), j \in 1..Len(a[1])}

\* the raw code domain of a uint8 band
RawCodes == 0..255

---------------------------------------------------------------------------
(* Class names, as character sequences. *)

Name_A == <<"A">>
Name_B == <<"B">>
Name_background == <<"b","a","c","k","g","r","o","u","n","d">>
Name_crops == <<"c","r","o","p","s">>
Name_idle == <<"i","d","l","e">>
Name_grassland == <<"g","r","a","s","s","l","a","n","d">>
Name_forest == <<"f","o","r","e","s","t">>
Name_shrubland == <<"s","h","r","u","b","l","a","n","d">>
Name_barren == <<"b","a","r","r","e","n">>
Name_developed == <<"d","e","v","e","l","o","p","e","d">>
Name_developed_open == Name_developed \o <<"_","o","p","e","n">>
Name_developed_low == Name_developed \o <<"_","l","o","w">>
Name_developed_med == Name_developed \o <<"_","m","e","d">>
Name_developed_high == Name_developed \o <<"_","h","i","g","h">>
Name_water == <<"w","a","t","e","r">>
Name_wetlands == <<"w","e","t","l","a","n","d","s">>
Name_woody_wetlands == <<"w","o","o","d","y","_">> \o Name_wetlands
Name_aquaculture == <<"a","q","u","a","c","u","l","t","u","r","e">>
Name_missing == <<"m","i","s","s","i","n","g">>
Name_nodata == <<"n","o","d","a","t","a">>

\* one item of a PixelRemapSpecs dict (the colour plays no part in the pixel values)
RemapItem(key, name, original) == [key |-> key, name |-> name, original |-> original]

\* the repository's table
reclass_spec ==
  << RemapItem(254, Name_background, {0}),
     RemapItem(1, Name_crops, (1..60) \cup (66..80) \cup (195..255)),
     RemapItem(2, Name_idle, {61}),
     RemapItem(3, Name_grassland, {62, 176}),
     RemapItem(4, Name_forest, {63, 141, 142, 143}),
     RemapItem(5, Name_shrubland, {64, 152}),
     RemapItem(6, Name_barren, {65, 131}),
     RemapItem(10, Name_developed, {82}),
     RemapItem(11, Name_developed_open, {121}),
     RemapItem(12, Name_developed_low, {122}),
     RemapItem(13, Name_developed_med, {123}),
     RemapItem(14, Name_developed_high, {124}),
     RemapItem(20, Name_water, {83, 111, 112}),
     RemapItem(21, Name_wetlands, {87, 190}),
     RemapItem(22, Name_woody_wetlands, {190}),
     RemapItem(28, Name_aquaculture, {92}),
     RemapItem(255, Name_missing, {}) >>

---------------------------------------------------------------------------
(* reclassify_raster *)

\* mutant: the matched pixels get the key itself, not the negated key
ApplyRemapItem_NotNegated(reclassified, item) ==
  [i \in DOMAIN reclassified |->
    [j \in DOMAIN reclassified[i] |->
      IF reclassified[i][j] \in item.original
        THEN item.key
        ELSE reclassified[i][j]]]

\* mutant: isin is evaluated on the absolute values of the working array
ApplyRemapItem_MatchAbsolute(reclassified, item) ==
  [i \in DOMAIN reclassified |->
    [j \in DOMAIN reclassified[i] |->
      IF Abs(reclassified[i][j]) \in item.original
        THEN item.key * (-1)
        ELSE reclassified[i][j]]]

\* mutant: the pixels that do not match are set to 0
ApplyRemapItem_ElseZero(reclassified, item) ==
  [i \in DOMAIN reclassified |->
    [j \in DOMAIN reclassified[i] |->
      IF reclassified[i][j] \in item.original
        THEN item.key * (-1)
        ELSE 0]]

\* mutant: key - 1 is written in place of key * -1
ApplyRemapItem_KeyMinusOne(reclassified, item) ==
  [i \in DOMAIN reclassified |->
    [j \in DOMAIN reclassified[i] |->
      IF reclassified[i][j] \in item.original
        THEN item.key - 1
        ELSE reclassified[i][j]]]

\* one iteration of the loop over remap.items():
\*   numpy.where(numpy.isin(reclassified, value['original']), key * -1, reclassified)
ApplyRemapItem(reclassified, item) ==
  [i \in DOMAIN reclassified |->
    [j \in DOMAIN reclassified[i] |->
      IF reclassified[i][j] \in item.original
        THEN item.key * (-1)
        ELSE reclassified[i][j]]]

\* mutant: the negated keys are never converted back
Absolute_Forgotten(a) == a

\* numpy.absolute
Absolute(a) == [i \in DOMAIN a |-> [j \in DOMAIN a[i] |-> Abs(a[i][j])]]

RECURSIVE ApplyRemapRange(_, _, _, _)
\* the loop's iterations for the items lo..hi of remap, in order: those of
\* the first half of the range, then those of the second half on the array
\* the first half has produced (its rows are counted so that it is computed
\* before the second half starts)
ApplyRemapRange(reclassified, remap, lo, hi) ==
  IF lo > hi THEN reclassified
  ELSE IF lo = hi THEN ApplyRemapItem(reclassified, remap[lo])
  ELSE LET mid == (lo + hi) \div 2
           half == ApplyRemapRange(reclassified, remap, lo, mid)
       IN  IF Len(half) = Len(reclassified)
             THEN ApplyRemapRange(half, remap, mid + 1, hi)
             ELSE half

\* the loop over the first n items of remap
ApplyRemapItems(reclassified, remap, n) == ApplyRemapRange(reclassified, remap, 1, n)

\* the array reclassify_raster writes and returns
ReclassifyBand(band1, remap) == Absolute(ApplyRemapItems(band1, remap, Len(remap)))


\* rc_* of a call in progress: band1 read, reclassified = copy.deepcopy(band1)
ReclassifyCall(band1, remap) ==
  /\ rc_pc = "loop"
  /\ rc_band1 = band1
  /\ rc_remap = remap
  /\ rc_i = 0
  /\ rc_reclassified = band1
  /\ rc_file = NoArray

ReclassifyIdle ==
  /\ rc_pc = "idle"
  /\ rc_band1 = NoArray
  /\ rc_remap = <<>>
  /\ rc_i = 0
  /\ rc_reclassified = NoArray
  /\ rc_file = NoArray

\* for key, value in remap.items(): reclassified = numpy.where(...)
ReclassifyLoop ==
  /\ rc_pc = "loop"
  /\ rc_i < Len(rc_remap)
  /\ rc_reclassified' = ApplyRemapItem(rc_reclassified, rc_remap[rc_i + 1])
  /\ rc_i' = rc_i + 1
  /\ UNCHANGED <<rc_pc, rc_band1, rc_remap, rc_file>>
  /\ UNCHANGED <<dfVars, trVars>>
  /\ UNCHANGED parVars

\* after the loop: numpy.absolute, dest.write(reclassified, 1), return reclassified
ReclassifyWrite ==
  /\ rc_pc = "loop"
  /\ rc_i = Len(rc_remap)
  /\ rc_reclassified' = Absolute(rc_reclassified)
  /\ rc_file' = rc_reclassified'
  /\ rc_pc' = "done"
  /\ UNCHANGED <<rc_band1, rc_remap, rc_i>>
  /\ UNCHANGED <<dfVars, trVars>>
  /\ UNCHANGED parVars

---------------------------------------------------------------------------
(* compute_raster_class_difference *)

\* one item of a PixelDiffSpecs dict
DiffItem(key, from, to) == [key |-> key, from |-> from, to |-> to]

\* mutant: value['from'] is used for both rasters
DiffMatches_FromTwice(item, f, t) == f \in item.from /\ t \in item.from

\* whether the item matches the pixel pair (f, t):
\*   numpy.isin(from_data, value['from']) & numpy.isin(to_data, value['to'])
DiffMatches(item, f, t) == f \in item.from /\ t \in item.to

\* mutant: only the 'from' raster is tested
ApplyDiffItem_FromOnly(reclassified, from_data, to_data, item) ==
  [i \in DOMAIN reclassified |->
    [j \in DOMAIN reclassified[i] |->
      IF from_data[i][j] \in item.from
        THEN item.key
        ELSE reclassified[i][j]]]

\* mutant: a pixel that already holds a code is not overwritten
ApplyDiffItem_KeepFirst(reclassified, from_data, to_data, item) ==
  [i \in DOMAIN reclassified |->
    [j \in DOMAIN reclassified[i] |->
      IF DiffMatches(item, from_data[i][j], to_data[i][j]) /\ reclassified[i][j] = 0
        THEN item.key
        ELSE reclassified[i][j]]]

\* one iteration of the loop over remap.items():
\*   numpy.where(isin(from) & isin(to), key, reclassified)
ApplyDiffItem(reclassified, from_data, to_data, item) ==
  [i \in DOMAIN reclassified |->
    [j \in DOMAIN reclassified[i] |->
      IF DiffMatches(item, from_data[i][j], to_data[i][j])
        THEN item.key
        ELSE reclassified[i][j]]]

\* numpy.zeros(from_data.shape, dtype=numpy.int16)
Zeros(shape) == [i \in 1..shape[1] |-> [j \in 1..shape[2] |-> 0]]

RECURSIVE ApplyDiffItems(_, _, _, _, _)
\* the loop over the first n items of remap
ApplyDiffItems(reclassified, from_data, to_data, remap, n) ==
  IF n = 0 THEN reclassified
  ELSE ApplyDiffItem(ApplyDiffItems(reclassified, from_data, to_data, remap, n - 1),
                     from_data, to_data, remap[n])

\* from_data.shape != to_data.shape
ShapesDiffer(from_data, to_data) == Shape(from_data) # Shape(to_data)

\* mutant: 0 is looked up in the items' 'from' lists, not among the keys
HasZeroKey_InFrom(remap) == \E i \in DOMAIN remap : 0 \in remap[i].from

\* 0 in remap.keys()
HasZeroKey(remap) == \E i \in DOMAIN remap : remap[i].key = 0

\* the array a successful call returns
DiffBand(from_data, to_data, remap) ==
  ApplyDiffItems(Zeros(Shape(from_data)), from_data, to_data, remap, Len(remap))

\* df_* when the function is entered
DiffCall(from_data, to_data, remap, out) ==
  /\ df_pc = "start"
  /\ df_from = from_data
  /\ df_to = to_data
  /\ df_remap = remap
  /\ df_out = out
  /\ df_i = 0
  /\ df_reclassified = NoArray
  /\ df_dir = FALSE
  /\ df_file = NoArray
  /\ df_ret = NoArray

DiffIdle ==
  /\ df_pc = "idle"
  /\ df_from = NoArray
  /\ df_to = NoArray
  /\ df_remap = <<>>
  /\ df_out = FALSE
  /\ df_i = 0
  /\ df_reclassified = NoArray
  /\ df_dir = FALSE
  /\ df_file = NoArray
  /\ df_ret = NoArray

\* if output_diff_rast: os.makedirs(dir_path) when it is not a directory yet
DiffMakeDirs == df_dir' = (df_dir \/ df_out)

\* raise ValueError('The two rasters must have the same shape.')
DiffShapeError ==
  /\ df_pc = "start"
  /\ DiffMakeDirs
  /\ ShapesDiffer(df_from, df_to)
  /\ df_pc' = "error"
  /\ UNCHANGED <<df_from, df_to, df_remap, df_out, df_i, df_reclassified, df_file, df_ret>>
  /\ UNCHANGED <<rcVars, trVars>>
  /\ UNCHANGED parVars

\* raise ValueError('The remap dictionary must not contain a value for 0.')
DiffZeroError ==
  /\ df_pc = "start"
  /\ DiffMakeDirs
  /\ ~ShapesDiffer(df_from, df_to)
  /\ HasZeroKey(df_remap)
  /\ df_pc' = "error"
  /\ UNCHANGED <<df_from, df_to, df_remap, df_out, df_i, df_reclassified, df_file, df_ret>>
  /\ UNCHANGED <<rcVars, trVars>>
  /\ UNCHANGED parVars

\* both checks pass: reclassified = numpy.zeros(from_data.shape)
DiffBegin ==
  /\ df_pc = "start"
  /\ DiffMakeDirs
  /\ ~ShapesDiffer(df_from, df_to)
  /\ ~HasZeroKey(df_remap)
  /\ df_reclassified' = Zeros(Shape(df_from))
  /\ df_pc' = "loop"
  /\ UNCHANGED <<df_from, df_to, df_remap, df_out, df_i, df_file, df_ret>>
  /\ UNCHANGED <<rcVars, trVars>>
  /\ UNCHANGED parVars

\* for key, value in remap.items(): reclassified = numpy.where(...)
DiffLoop ==
  /\ df_pc = "loop"
  /\ df_i < Len(df_remap)
  /\ df_reclassified' = ApplyDiffItem(df_reclassified, df_from, df_to, df_remap[df_i + 1])
  /\ df_i' = df_i + 1
  /\ UNCHANGED <<df_pc, df_from, df_to, df_remap, df_out, df_dir, df_file, df_ret>>
  /\ UNCHANGED <<rcVars, trVars>>
  /\ UNCHANGED parVars

\* after the loop: if output_diff_rast: dest.write(reclassified, 1); return reclassified
DiffWrite ==
  /\ df_pc = "loop"
  /\ df_i = Len(df_remap)
  /\ df_file' = IF df_out THEN df_reclassified ELSE df_file
  /\ df_ret' = df_reclassified
  /\ df_pc' = "done"
  /\ UNCHANGED <<df_from, df_to, df_remap, df_out, df_i, df_reclassified, df_dir>>
  /\ UNCHANGED <<rcVars, trVars>>
  /\ UNCHANGED parVars

---------------------------------------------------------------------------
(* calculate_pixel_trajectories *)

NoDict == <<>>

\* mutant: the two items' lists are exchanged: 1 = any class but class_num
BooleanRemap_Exchanged(class_num, name) ==
  << RemapItem(1, name, (1..(class_num - 1)) \cup ((class_num + 1)..255)),
     RemapItem(0, <<"n","o","t"," ">> \o name, {class_num}) >>

\* the table calculate_pixel_trajectories builds for one class
BooleanRemap(class_num, name) ==
  << RemapItem(1, name, {class_num}),
     RemapItem(0, <<"n","o","t"," ">> \o name,
               (1..(class_num - 1)) \cup ((class_num + 1)..255)) >>

\* the table calculate_pixel_trajectories passes: 1 = gained, 254 = lost
BooleanDiff == << DiffItem(1, {0}, {1}), DiffItem(254, {1}, {0}) >>

\* sorted(..., key=lambda x: x[1]) of the folder's years
RECURSIVE SortAscending(_)
SortAscending(S) ==
  IF S = {} THEN <<>>
  ELSE LET m == CHOOSE x \in S : \A y \in S : x <= y
       IN  <<m>> \o SortAscending(S \ {m})

\* the boolean rasters reclassify_rasters writes for one class: one file per
\* raster of the folder, under the same file name
BooleanFiles(folder, class_num, name) ==
  [year \in DOMAIN folder |-> ReclassifyBand(folder[year], BooleanRemap(class_num, name))]

\* mutant: the first year's layer holds no gain
FirstYearLayer_Empty(year, band) == [key |-> <<year>>, array |-> Zeros(Shape(band))]

\* diff_dict[class_num][f'{year}'] = first_year_array
FirstYearLayer(year, band) == [key |-> <<year>>, array |-> band]

\* diff_dict[class_num][f'{prev_year}_{year}'] =
\*   compute_raster_class_difference(prev_file_path, file_path, {1: 0 -> 1, 254: 1 -> 0})
DiffLayer(prev_year, year, prev_band, band) ==
  [key |-> <<prev_year, year>>, array |-> DiffBand(prev_band, band, BooleanDiff)]

\* the items of diff_dict[class_num], in the order of rasters_list
ClassLayers(files) ==
  LET years == SortAscending(DOMAIN files)
  IN  [k \in 1..Len(years) |->
        IF k = 1 THEN FirstYearLayer(years[1], files[years[1]])
        ELSE DiffLayer(years[k - 1], years[k], files[years[k - 1]], files[years[k]])]

RECURSIVE FlattenRows(_, _)
\* the pixels of the first n rows in the order `for row in a: for pixel in row`
FlattenRows(a, n) == IF n = 0 THEN <<>> ELSE FlattenRows(a, n - 1) \o a[n]

Flatten(a) == FlattenRows(a, Len(a))

\* the files of boolean_class/{class_num}
FilesOf(bool, class_num) ==
  LET i == CHOOSE k \in DOMAIN bool : bool[k].class_num = class_num IN bool[i].files

\* reclass_spec[class_number]['name']
NameOf(spec, class_num) ==
  LET i == CHOOSE k \in DOMAIN spec : spec[k].key = class_num IN spec[i].name

\* mutant: counter += 1 inside the try, skipped when the assignment raises
Counter_InTry(p, raised) == p - Cardinality({q \in raised : q < p})

\* the pixel index `counter` points at (counting from 1) when the p-th pixel
\* of a layer is assigned: counter += 1 runs after every pixel before it,
\* whether its assignment raised or not
Counter(p, raised) == p

\* the tensor after the assignment loop: zeros, then
\*   try: array[counter][class_index][year_range_index] = numpy.int32(pixel)
\*   except Exception: pass
\* where the assignments of the cells in faults raise
Tensor(diff, pixels_count, classes_count, years_count, faults) ==
  [z \in 1..pixels_count |->
    [class_index \in 1..classes_count |->
      [year_range_index \in 1..years_count |->
        IF /\ class_index <= Len(diff)
           /\ year_range_index <= Len(diff[class_index].layers)
          THEN LET flat == Flatten(diff[class_index].layers[year_range_index].array)
                   raised == {p \in DOMAIN flat : <<p, class_index, year_range_index>> \in faults}
                   stored == {p \in DOMAIN flat \ raised : Counter(p, raised) = z}
               IN  IF stored = {} THEN 0
                   ELSE flat[CHOOSE p \in stored : \A q \in stored : q <= p]
          ELSE 0]]]

\* the separator of f'{class_name} -> ' (U+2192 between two spaces)
Arrow == <<" ", "→", " ">>

\* str.endswith
EndsWith(string, suffix) ==
  /\ Len(suffix) <= Len(string)
  /\ SubSeq(string, Len(string) - Len(suffix) + 1, Len(string)) = suffix

\* string = f'{class_name} -> '; if trajectory.endswith(string): break;
\* trajectory += string
AppendGain(trajectory, class_name) ==
  IF EndsWith(trajectory, class_name \o Arrow)
    THEN trajectory
    ELSE trajectory \o class_name \o Arrow

RECURSIVE Trajectory(_, _, _)
\* `trajectory` after the first n year ranges of one pixel's walk: in each
\* year range the first class whose value is 1 is taken
Trajectory(pixel, class_names_in_order, n) ==
  IF n = 0 THEN <<>>
  ELSE LET before == Trajectory(pixel, class_names_in_order, n - 1)
           gained == {ci \in DOMAIN class_names_in_order : pixel[ci][n] = 1}
       IN  IF gained = {} THEN before
           ELSE AppendGain(before,
                  class_names_in_order[CHOOSE ci \in gained : \A cj \in gained : ci <= cj])

\* dict.get(key, 0) on a dict kept as its items in insertion order
DictGet(dict, key) ==
  IF \E i \in DOMAIN dict : dict[i].key = key
    THEN dict[CHOOSE i \in DOMAIN dict : dict[i].key = key].value
    ELSE 0

\* dict[key] = value
DictSet(dict, key, value) ==
  IF \E i \in DOMAIN dict : dict[i].key = key
    THEN [i \in DOMAIN dict |-> IF dict[i].key = key THEN [key |-> key, value |-> value] ELSE dict[i]]
    ELSE Append(dict, [key |-> key, value |-> value])

\* mutant: the pixel is tallied whether or not its trajectory is empty
Tally_Always(counts, trajectory) ==
  DictSet(counts, trajectory, DictGet(counts, trajectory) + 1)

\* mutant: the tally is made once per recorded gain, inside the year loop
Tally_PerGain(counts, trajectory) ==
  DictSet(counts, trajectory,
          DictGet(counts, trajectory)
            + Cardinality({k \in DOMAIN trajectory : trajectory[k] = Arrow[2]}))

\* mutant: the count is set to 1, not added to the count so far
Tally_NotAccumulated(counts, trajectory) ==
  IF trajectory # <<>>
    THEN DictSet(counts, trajectory, 1)
    ELSE counts

\* if trajectory: pixel_trajectories_counts[trajectory] = get(trajectory, 0) + 1
Tally(counts, trajectory) ==
  IF trajectory # <<>>
    THEN DictSet(counts, trajectory, DictGet(counts, trajectory) + 1)
    ELSE counts

RECURSIVE TallyAll(_, _)
\* pixel_trajectories_counts after the first n pixels
TallyAll(trajectories, n) ==
  IF n = 0 THEN <<>> ELSE Tally(TallyAll(trajectories, n - 1), trajectories[n])

\* key[:-3]
DropLast3(key) == SubSeq(key, 1, Len(key) - 3)

\* { key[:-3]: value for key, value in pixel_trajectories_counts.items() }
RECURSIVE CleanKeys(_, _)
CleanKeys(counts, n) ==
  IF n = 0 THEN <<>>
  ELSE DictSet(CleanKeys(counts, n - 1), DropLast3(counts[n].key), counts[n].value)

\* the characters of the class names and the separator in code point order
CharsInOrder ==
  << " ", "A", "B", "_", "a", "b", "c", "d", "e", "f", "g", "h", "i", "j", "k", "l", "m",
     "n", "o", "p", "q", "r", "s", "t", "u", "v", "w", "x", "y", "z", "→" >>

CodePointRank(ch) == CHOOSE i \in DOMAIN CharsInOrder : CharsInOrder[i] = ch

\* Python's a < b on str
StrLess(a, b) ==
  \E k \in 1..(Len(a) + 1) :
    /\ k <= Len(b)
    /\ SubSeq(a, 1, k - 1) = SubSeq(b, 1, k - 1)
    /\ \/ k = Len(a) + 1
       \/ k <= Len(a) /\ CodePointRank(a[k]) < CodePointRank(b[k])

RECURSIVE SortedReverse(_)
\* dict(sorted(items, key=lambda item: item[0], reverse=True))
SortedReverse(items) ==
  IF items = {} THEN <<>>
  ELSE LET top == CHOOSE x \in items : \A y \in items : y = x \/ StrLess(y.key, x.key)
       IN  <<top>> \o SortedReverse(items \ {top})

\* tr_* when the function is entered
TrajectoriesCall(folder, spec) ==
  /\ tr_pc = "boolean"
  /\ tr_folder = folder
  /\ tr_spec = spec
  /\ tr_ci = 0
  /\ tr_bool = <<>>
  /\ tr_diff = <<>>
  /\ tr_array = <<>>
  /\ tr_traj = <<>>
  /\ tr_counts = <<>>
  /\ tr_json = NoDict
  /\ tr_ret = NoDict

TrajectoriesIdle ==
  /\ tr_pc = "idle"
  /\ tr_folder = <<>>
  /\ tr_faults = {}
  /\ tr_spec = <<>>
  /\ tr_ci = 0
  /\ tr_bool = <<>>
  /\ tr_diff = <<>>
  /\ tr_array = <<>>
  /\ tr_traj = <<>>
  /\ tr_counts = <<>>
  /\ tr_json = NoDict
  /\ tr_ret = NoDict

\* first loop over reclass_spec: skip class 0, else reclassify_rasters into
\* boolean_class/{class_num}; the loop's end starts the second loop
TrajectoriesBoolean ==
  /\ tr_pc = "boolean"
  /\ tr_ci < Len(tr_spec)
  /\ LET item == tr_spec[tr_ci + 1]
     IN  tr_bool' =
           IF item.key = 0 THEN tr_bool
           ELSE Append(tr_bool,
                  [class_num |-> item.key,
                   files |-> BooleanFiles(tr_folder, item.key, item.name)])
  /\ tr_ci' = IF tr_ci + 1 = Len(tr_spec) THEN 0 ELSE tr_ci + 1
  /\ tr_pc' = IF tr_ci + 1 = Len(tr_spec) THEN "diff" ELSE "boolean"
  /\ UNCHANGED <<tr_folder, tr_faults, tr_spec, tr_diff, tr_array, tr_traj, tr_counts, tr_json, tr_ret>>
  /\ UNCHANGED <<rcVars, dfVars>>
  /\ UNCHANGED parVars

\* second loop over reclass_spec: skip class 0, else fill diff_dict[class_num]
TrajectoriesDiff ==
  /\ tr_pc = "diff"
  /\ tr_ci < Len(tr_spec)
  /\ LET item == tr_spec[tr_ci + 1]
     IN  tr_diff' =
           IF item.key = 0 THEN tr_diff
           ELSE Append(tr_diff,
                  [class_num |-> item.key,
                   layers |-> ClassLayers(FilesOf(tr_bool, item.key))])
  /\ tr_ci' = IF tr_ci + 1 = Len(tr_spec) THEN 0 ELSE tr_ci + 1
  /\ tr_pc' = IF tr_ci + 1 = Len(tr_spec) THEN "tensor" ELSE "diff"
  /\ UNCHANGED <<tr_folder, tr_faults, tr_spec, tr_bool, tr_array, tr_traj, tr_counts, tr_json, tr_ret>>
  /\ UNCHANGED <<rcVars, dfVars>>
  /\ UNCHANGED parVars

\* numpy.zeros((pixels_count, classes_count, years_count)) and the loop that
\* places every layer's pixels into it
TrajectoriesTensor ==
  /\ tr_pc = "tensor"
  /\ tr_array' = Tensor(tr_diff,
                        Len(Flatten(tr_diff[1].layers[1].array)),
                        Len(tr_spec),
                        Cardinality(DOMAIN tr_folder),
                        tr_faults)
  /\ tr_pc' = "walk"
  /\ UNCHANGED <<tr_folder, tr_faults, tr_spec, tr_ci, tr_bool, tr_diff, tr_traj, tr_counts, tr_json, tr_ret>>
  /\ UNCHANGED <<rcVars, dfVars>>
  /\ UNCHANGED parVars

\* for z in range(len(array)): walk the year ranges, tally the trajectory
TrajectoriesWalk ==
  /\ tr_pc = "walk"
  /\ LET years_in_order == [k \in DOMAIN tr_diff[1].layers |-> tr_diff[1].layers[k].key]
         class_names_in_order == [k \in DOMAIN tr_diff |-> NameOf(tr_spec, tr_diff[k].class_num)]
     IN  tr_traj' = [z \in DOMAIN tr_array |->
                      Trajectory(tr_array[z], class_names_in_order, Len(years_in_order))]
  /\ tr_counts' = TallyAll(tr_traj', Len(tr_traj'))
  /\ tr_pc' = "save"
  /\ UNCHANGED <<tr_folder, tr_faults, tr_spec, tr_ci, tr_bool, tr_diff, tr_array, tr_json, tr_ret>>
  /\ UNCHANGED <<rcVars, dfVars>>
  /\ UNCHANGED parVars

\* clean and sort the counts, json.dump them when output_trajectories_file
\* is given, shutil.rmtree the temp folder, return
TrajectoriesSave ==
  /\ tr_pc = "save"
  /\ \E output_trajectories_file \in BOOLEAN :
       LET clean_trajectory_counts == CleanKeys(tr_counts, Len(tr_counts))
           sorted_trajectory_counts == SortedReverse(Range(clean_trajectory_counts))
       IN  /\ tr_json' = IF output_trajectories_file THEN sorted_trajectory_counts ELSE tr_json
           /\ tr_ret' = sorted_trajectory_counts
  /\ tr_bool' = <<>>
  /\ tr_pc' = "done"
  /\ UNCHANGED <<tr_folder, tr_faults, tr_spec, tr_ci, tr_diff, tr_array, tr_traj, tr_counts>>
  /\ UNCHANGED <<rcVars, dfVars>>
  /\ UNCHANGED parVars

---------------------------------------------------------------------------
(* multiprocess_counter and watch_counter *)

\* mutant: the callback is given its two arguments in the other order
Call_Swapped(current_value, last_value) == [new |-> last_value, old |-> current_value]

\* one invocation of callback(current_value, last_value)
Call(current_value, last_value) == [new |-> current_value, old |-> last_value]

\* mutant: the lock is granted although it is held
Acquirable_Always(locked) == TRUE

\* lock.acquire() of manager.Lock(): granted only while the lock is not held
Acquirable(locked) == ~locked

\* the Manager process serves shared_counter and lock from the entry of the
\* `with Manager()` block to its exit
ManagerAlive == cn_scope = "entered"

RECURSIVE SumDeltas(_, _)
\* what the callers' callback adds up: bar(new_counter_value - old_counter_value)
SumDeltas(calls, n) ==
  IF n = 0 THEN 0 ELSE SumDeltas(calls, n - 1) + (calls[n].new - calls[n].old)

\* bar.current of the alive_bar the callback feeds
BarCurrent == SumDeltas(cn_calls, Len(cn_calls))

CounterIdle ==
  /\ cn_scope = "idle"
  /\ cn_value = 0
  /\ cn_locked = FALSE
  /\ cn_wpc = "none"
  /\ cn_last = 0
  /\ cn_current = 0
  /\ cn_calls = <<>>
  /\ cn_exc = <<>>
  /\ cn_out = <<>>

\* entry of the context manager: Manager(), manager.Value('i', 0),
\* manager.Lock(), watcher_thread.start(), yield
CounterEnter ==
  /\ cn_scope' = "entered"
  /\ cn_value' = 0
  /\ cn_locked' = FALSE
  /\ cn_wpc' = "start"
  /\ UNCHANGED <<cn_last, cn_current, cn_calls, cn_exc, cn_out>>

\* exit of the context manager: `finally: pass`, then the Manager shuts down;
\* the watcher thread is neither stopped nor joined
CounterExit ==
  /\ cn_scope' = "exited"
  /\ UNCHANGED <<cn_value, cn_locked, cn_wpc, cn_last, cn_current, cn_calls, cn_exc, cn_out>>

\* last_value = shared_counter.value
WatcherStart ==
  /\ cn_wpc = "start"
  /\ ManagerAlive
  /\ cn_last' = cn_value
  /\ cn_wpc' = "acquire"
  /\ UNCHANGED <<cn_scope, cn_value, cn_locked, cn_current, cn_calls, cn_exc, cn_out>>
  /\ UNCHANGED <<wkVars, fsVars, gsVars, rrVars, rasterVars, extVars>>

\* with lock: (entered)
WatcherAcquire ==
  /\ cn_wpc = "acquire"
  /\ ManagerAlive
  /\ Acquirable(cn_locked)
  /\ cn_locked' = TRUE
  /\ cn_wpc' = "get"
  /\ UNCHANGED <<cn_scope, cn_value, cn_last, cn_current, cn_calls, cn_exc, cn_out>>
  /\ UNCHANGED <<wkVars, fsVars, gsVars, rrVars, rasterVars, extVars>>

\* current_value = shared_counter.value
WatcherGet ==
  /\ cn_wpc = "get"
  /\ ManagerAlive
  /\ cn_current' = cn_value
  /\ cn_wpc' = "release"
  /\ UNCHANGED <<cn_scope, cn_value, cn_locked, cn_last, cn_calls, cn_exc, cn_out>>
  /\ UNCHANGED <<wkVars, fsVars, gsVars, rrVars, rasterVars, extVars>>

\* with lock: (left)
WatcherRelease ==
  /\ cn_wpc = "release"
  /\ ManagerAlive
  /\ cn_locked' = FALSE
  /\ cn_wpc' = "compare"
  /\ UNCHANGED <<cn_scope, cn_value, cn_last, cn_current, cn_calls, cn_exc, cn_out>>
  /\ UNCHANGED <<wkVars, fsVars, gsVars, rrVars, rasterVars, extVars>>

\* if current_value != last_value: callback(current_value, last_value);
\* last_value = current_value
WatcherCompare ==
  /\ cn_wpc = "compare"
  /\ IF cn_current # cn_last
       THEN /\ cn_calls' = Append(cn_calls, Call(cn_current, cn_last))
            /\ cn_last' = cn_current
       ELSE UNCHANGED <<cn_calls, cn_last>>
  /\ cn_wpc' = "sleep"
  /\ UNCHANGED <<cn_scope, cn_value, cn_locked, cn_current, cn_exc, cn_out>>
  /\ UNCHANGED <<wkVars, fsVars, gsVars, rrVars, rasterVars, extVars>>

\* time.sleep(1) is over
WatcherWake ==
  /\ cn_wpc = "sleep"
  /\ cn_wpc' = "acquire"
  /\ UNCHANGED <<cn_scope, cn_value, cn_locked, cn_last, cn_current, cn_calls, cn_exc, cn_out>>
  /\ UNCHANGED <<wkVars, fsVars, gsVars, rrVars, rasterVars, extVars>>

\* str(e) of a BrokenPipeError
BrokenPipe == "[Errno 32] Broken pipe"

\* str(e) of the exceptions raised in the watcher: a proxy call on a Manager
\* that has shut down fails with a broken pipe or with another connection
\* error, and a callback may fail with any message
Errors == {BrokenPipe, "[Errno 111] Connection refused"}

\* mutant: every exception is printed
Handle_PrintAll(e) == << <<"\"", e, "\"">>, <<"Error in watch_counter: ", e>> >>

\* except Exception as e: the lines printed for it
Handle(e) ==
  IF e = BrokenPipe
    THEN <<>>
    ELSE << <<"\"", e, "\"">>, <<"Error in watch_counter: ", e>> >>

\* an exception that the `except` of lines 21-25 has handled
Caught(e) == [message |-> e, caught |-> TRUE]

\* an exception that left watch_counter and ended its thread
Uncaught(e) == [message |-> e, caught |-> FALSE]

\* a call on shared_counter or lock after the Manager has shut down raises:
\* inside the try the exception ends the loop and is handled; at line 11,
\* which is outside the try, it ends the thread unhandled
WatcherBrokenPipe ==
  /\ cn_wpc \in {"start", "acquire", "get", "release"}
  /\ cn_scope = "exited"
  /\ \E e \in Errors :
       IF cn_wpc = "start"
         THEN /\ cn_exc' = <<Uncaught(e)>>
              /\ cn_out' = cn_out
         ELSE /\ cn_exc' = <<Caught(e)>>
              /\ cn_out' = cn_out \o Handle(e)
  /\ cn_wpc' = "ended"
  /\ UNCHANGED <<cn_scope, cn_value, cn_locked, cn_last, cn_current, cn_calls>>
  /\ UNCHANGED <<wkVars, fsVars, gsVars, rrVars, rasterVars, extVars>>

\* callback(current_value, last_value) raises: the exception ends the loop
\* before last_value is stored, and is handled
WatcherCallbackRaise ==
  /\ cn_wpc = "compare"
  /\ cn_current # cn_last
  /\ \E e \in Errors :
       /\ cn_exc' = <<Caught(e)>>
       /\ cn_out' = cn_out \o Handle(e)
  /\ cn_wpc' = "ended"
  /\ UNCHANGED <<cn_scope, cn_value, cn_locked, cn_last, cn_current, cn_calls>>
  /\ UNCHANGED <<wkVars, fsVars, gsVars, rrVars, rasterVars, extVars>>

Watcher ==
  \/ WatcherStart
  \/ WatcherAcquire
  \/ WatcherGet
  \/ WatcherRelease
  \/ WatcherCompare
  \/ WatcherWake
  \/ WatcherBrokenPipe

---------------------------------------------------------------------------
(* the worker tasks that report to the counter *)

\* chunker(seq, size): the lengths of seq[pos:pos + size] for pos in
\* range(0, len(seq), size)
Chunker(len, size) ==
  [k \in 1..((len + size - 1) \div size) |->
     IF k * size <= len THEN size ELSE len - (k - 1) * size]

RECURSIVE SumSeq(_, _)
SumSeq(s, n) == IF n = 0 THEN 0 ELSE SumSeq(s, n - 1) + s[n]

\* the tasks a driver is about to submit, one per entry of sizes
WorkersNew(sizes) ==
  /\ wk_size = sizes
  /\ wk_pc = [w \in DOMAIN sizes |-> "new"]
  /\ wk_left = sizes
  /\ wk_tmp = [w \in DOMAIN sizes |-> 0]

WorkersIdle == WorkersNew(<<>>)

\* executor.submit(...) of task w
Submit(w) ==
  /\ wk_pc' = [wk_pc EXCEPT ![w] = "feature"]
  /\ UNCHANGED <<wk_size, wk_left, wk_tmp>>

\* every submitted task has returned or raised
AllFinished == \A w \in DOMAIN wk_pc : wk_pc[w] \in {"returned", "raised"}

\* for feature in features: ... with lock: (entered)
WorkerAcquire(w) ==
  /\ wk_pc[w] = "feature"
  /\ wk_left[w] > 0
  /\ Acquirable(cn_locked)
  /\ cn_locked' = TRUE
  /\ wk_pc' = [wk_pc EXCEPT ![w] = "get"]
  /\ UNCHANGED <<cn_scope, cn_value, cn_wpc, cn_last, cn_current, cn_calls, cn_exc, cn_out>>
  /\ UNCHANGED <<wk_size, wk_left, wk_tmp>>
  /\ UNCHANGED <<fsVars, gsVars, rrVars, rasterVars, extVars>>

\* shared_counter.value += 1: the read of the proxy's value
WorkerGet(w) ==
  /\ wk_pc[w] = "get"
  /\ wk_tmp' = [wk_tmp EXCEPT ![w] = cn_value]
  /\ wk_pc' = [wk_pc EXCEPT ![w] = "set"]
  /\ UNCHANGED <<wk_size, wk_left>>
  /\ UNCHANGED <<cnVars, fsVars, gsVars, rrVars, rasterVars, extVars>>

\* shared_counter.value += 1: the write of the proxy's value
WorkerSet(w) ==
  /\ wk_pc[w] = "set"
  /\ cn_value' = wk_tmp[w] + 1
  /\ wk_pc' = [wk_pc EXCEPT ![w] = "release"]
  /\ UNCHANGED <<cn_scope, cn_locked, cn_wpc, cn_last, cn_current, cn_calls, cn_exc, cn_out>>
  /\ UNCHANGED <<wk_size, wk_left, wk_tmp>>
  /\ UNCHANGED <<fsVars, gsVars, rrVars, rasterVars, extVars>>

\* with lock: (left); the loop goes on to the next feature
WorkerRelease(w) ==
  /\ wk_pc[w] = "release"
  /\ cn_locked' = FALSE
  /\ wk_left' = [wk_left EXCEPT ![w] = @ - 1]
  /\ wk_pc' = [wk_pc EXCEPT ![w] = "feature"]
  /\ UNCHANGED <<cn_scope, cn_value, cn_wpc, cn_last, cn_current, cn_calls, cn_exc, cn_out>>
  /\ UNCHANGED <<wk_size, wk_tmp>>
  /\ UNCHANGED <<fsVars, gsVars, rrVars, rasterVars, extVars>>

\* return (features_to_return, len(features))
WorkerReturn(w) ==
  /\ wk_pc[w] = "feature"
  /\ wk_left[w] = 0
  /\ wk_pc' = [wk_pc EXCEPT ![w] = "returned"]
  /\ UNCHANGED <<wk_size, wk_left, wk_tmp>>
  /\ UNCHANGED <<cnVars, fsVars, gsVars, rrVars, rasterVars, extVars>>

\* the task raises while it works on a feature or on its result, outside
\* the `with lock` block
WorkerRaise(w) ==
  /\ wk_pc[w] = "feature"
  /\ wk_pc' = [wk_pc EXCEPT ![w] = "raised"]
  /\ UNCHANGED <<wk_size, wk_left, wk_tmp>>
  /\ UNCHANGED <<cnVars, fsVars, gsVars, rrVars, rasterVars, extVars>>

Worker ==
  \E w \in DOMAIN wk_pc :
    \/ WorkerAcquire(w)
    \/ WorkerGet(w)
    \/ WorkerSet(w)
    \/ WorkerRelease(w)
    \/ WorkerReturn(w)
    \/ WorkerRaise(w)

---------------------------------------------------------------------------
(* process_layer.batched_records of filter_spatial_within.py *)

FilterIdle == fs_pc = "idle" /\ fs_i = 0

\* batched_records about to enter its `with multiprocess_counter(...)`, the
\* layer cut into chunks of the given sizes
FilterCall(chunks) ==
  /\ fs_pc = "enter"
  /\ fs_i = 0
  /\ WorkersNew(chunks)
  /\ CounterIdle

\* with multiprocess_counter(...) as (shared_counter, lock),
\* ProcessPoolExecutor() as executor:
FilterEnter ==
  /\ fs_pc = "enter"
  /\ CounterEnter
  /\ fs_pc' = "submit"
  /\ UNCHANGED <<fs_i, wkVars, gsVars, rrVars, rasterVars, extVars>>

\* future = executor.submit(__filter_features, chunk, ...); futures.append(future)
FilterSubmit ==
  /\ fs_pc = "submit"
  /\ fs_i < Len(wk_size)
  /\ Submit(fs_i + 1)
  /\ fs_i' = fs_i + 1
  /\ UNCHANGED <<fs_pc, cnVars, gsVars, rrVars, rasterVars, extVars>>

\* for future in as_completed(futures) has yielded every future, and the
\* executor's `with` is left
FilterAsCompleted ==
  /\ fs_pc = "submit"
  /\ fs_i = Len(wk_size)
  /\ AllFinished
  /\ fs_pc' = "exit"
  /\ UNCHANGED <<fs_i, cnVars, wkVars, gsVars, rrVars, rasterVars, extVars>>

\* the `with multiprocess_counter(...)` is left
FilterExit ==
  /\ fs_pc = "exit"
  /\ CounterExit
  /\ fs_pc' = "compile"
  /\ UNCHANGED <<fs_i, wkVars, gsVars, rrVars, rasterVars, extVars>>

\* for future in futures: res = future.result() re-raises a task's exception
FilterCompile ==
  /\ fs_pc = "compile"
  /\ fs_pc' = IF \E w \in DOMAIN wk_pc : wk_pc[w] = "raised" THEN "raised" ELSE "done"
  /\ UNCHANGED <<fs_i, cnVars, wkVars, gsVars, rrVars, rasterVars, extVars>>

---------------------------------------------------------------------------
(* generate_summary_data of src/apply_cdl_data_to_parcels.py *)

SummaryIdle == gs_pc = "idle" /\ gs_i = 0 /\ gs_raise = FALSE

\* total_features = feature_count * len(consolidated_rasters_list)
total_features == SumSeq(wk_size, Len(wk_size))

\* generate_summary_data about to enter its `with multiprocess_counter(...)`:
\* one task per year, each with feature_count features to report
SummaryCall(years, feature_count) ==
  /\ gs_pc = "enter"
  /\ gs_i = 0
  /\ gs_raise = FALSE
  /\ WorkersNew([y \in 1..years |-> feature_count])
  /\ CounterIdle

\* one step of a year's summarize_raster task.  The summarize_raster that
\* takes shared_counter and lock is not among the sources; it is taken to
\* report each feature as workers of the counter do: `with lock:
\* shared_counter.value += 1`, once per feature, total_features in all
SummaryTask == Worker

\* with multiprocess_counter(...) as (shared_counter, lock):
\*   with ProcessPoolExecutor() as executor:
SummaryEnter ==
  /\ gs_pc = "enter"
  /\ CounterEnter
  /\ gs_pc' = "submit"
  /\ UNCHANGED <<gs_i, gs_raise, wkVars, fsVars, rrVars, rasterVars, extVars>>

\* future = executor.submit(summarize_raster, ..., shared_counter=shared_counter, lock=lock)
SummarySubmit ==
  /\ gs_pc = "submit"
  /\ gs_i < Len(wk_size)
  /\ Submit(gs_i + 1)
  /\ gs_i' = gs_i + 1
  /\ UNCHANGED <<gs_pc, gs_raise, cnVars, fsVars, rrVars, rasterVars, extVars>>

\* the for loop over consolidated_rasters_list is over
SummarySubmitted ==
  /\ gs_pc = "submit"
  /\ gs_i = Len(wk_size)
  /\ gs_pc' = "wait"
  /\ UNCHANGED <<gs_i, gs_raise, cnVars, wkVars, fsVars, rrVars, rasterVars, extVars>>

\* while bar.current < total_features: time.sleep(0.1) -- the loop is left
\* only when the condition is false
SummaryWaitOver ==
  /\ gs_pc = "wait"
  /\ ~(BarCurrent < total_features)
  /\ gs_pc' = "results"
  /\ UNCHANGED <<gs_i, gs_raise, cnVars, wkVars, fsVars, rrVars, rasterVars, extVars>>

\* for (year, future) in futures: future.exception() waits for the task;
\* the first exception is raised, otherwise the data are yielded
SummaryResults ==
  /\ gs_pc = "results"
  /\ AllFinished
  /\ gs_raise' = (\E w \in DOMAIN wk_pc : wk_pc[w] = "raised")
  /\ gs_pc' = "exit"
  /\ UNCHANGED <<gs_i, cnVars, wkVars, fsVars, rrVars, rasterVars, extVars>>

\* the executor's and the counter's `with` are left, by the raise or at the
\* end of the generator
SummaryExit ==
  /\ gs_pc = "exit"
  /\ CounterExit
  /\ gs_pc' = IF gs_raise THEN "raised" ELSE "done"
  /\ UNCHANGED <<gs_i, gs_raise, wkVars, fsVars, rrVars, rasterVars, extVars>>

---------------------------------------------------------------------------
(* reclassify_rasters *)

BatchIdle ==
  /\ rr_pc = "idle"
  /\ rr_task = <<>>
  /\ rr_i = 0
  /\ rr_bar = 0
  /\ rr_out = {}

\* reclassify_rasters with files_to_process listed, at `if use_multiprocessing`
ReclassifyRastersCall(files, use_multiprocessing) ==
  /\ rr_pc = IF use_multiprocessing THEN "parallel" ELSE "sequential"
  /\ rr_task = [t \in 1..files |-> "new"]
  /\ rr_i = 0
  /\ rr_bar = 0
  /\ rr_out = {}

\* future = executor.submit(reclassify_raster, ...); futures.append(future); sleep(1)
ReclassifyRastersSubmit ==
  /\ rr_pc = "parallel"
  /\ rr_i < Len(rr_task)
  /\ rr_task' = [rr_task EXCEPT ![rr_i + 1] = "queued"]
  /\ rr_i' = rr_i + 1
  /\ UNCHANGED <<rr_pc, rr_bar, rr_out>>
  /\ UNCHANGED <<cnVars, wkVars, fsVars, gsVars, rasterVars, extVars>>

\* a worker process runs reclassify_raster to its end: the output is written
TaskDone(t) ==
  /\ rr_task[t] = "queued"
  /\ rr_task' = [rr_task EXCEPT ![t] = "done"]
  /\ rr_out' = rr_out \cup {t}
  /\ UNCHANGED <<rr_pc, rr_i, rr_bar>>
  /\ UNCHANGED <<cnVars, wkVars, fsVars, gsVars, rasterVars, extVars>>

\* reclassify_raster raises in the worker process: the exception is stored
\* in the task's future
TaskRaise(t) ==
  /\ rr_task[t] = "queued"
  /\ rr_task' = [rr_task EXCEPT ![t] = "failed"]
  /\ UNCHANGED <<rr_pc, rr_i, rr_bar, rr_out>>
  /\ UNCHANGED <<cnVars, wkVars, fsVars, gsVars, rasterVars, extVars>>

\* mutant: as_completed yields every submitted future at once
CompletedFutures_All == DOMAIN rr_task

\* the futures that as_completed can yield: finished ones, failed or not
CompletedFutures == {t \in DOMAIN rr_task : rr_task[t] \in {"done", "failed"}}

\* for future in as_completed(futures): bar()
ReclassifyRastersAsCompleted ==
  /\ rr_pc = "parallel"
  /\ rr_i = Len(rr_task)
  /\ rr_bar < Cardinality(CompletedFutures)
  /\ rr_bar' = rr_bar + 1
  /\ UNCHANGED <<rr_pc, rr_task, rr_i, rr_out>>
  /\ UNCHANGED <<cnVars, wkVars, fsVars, gsVars, rasterVars, extVars>>

\* as_completed is exhausted; the executor's and the bar's `with` are left
\* and the function returns None
ReclassifyRastersReturn ==
  /\ rr_pc \in {"parallel", "sequential"}
  /\ rr_i = Len(rr_task)
  /\ rr_bar = Len(rr_task)
  /\ rr_pc' = "returned"
  /\ UNCHANGED <<rr_task, rr_i, rr_bar, rr_out>>
  /\ UNCHANGED <<cnVars, wkVars, fsVars, gsVars, rasterVars, extVars>>

\* else branch: reclassify_raster(file_path, out_file_path, remap); bar()
ReclassifyRastersSequential ==
  /\ rr_pc = "sequential"
  /\ rr_i < Len(rr_task)
  /\ rr_task' = [rr_task EXCEPT ![rr_i + 1] = "done"]
  /\ rr_out' = rr_out \cup {rr_i + 1}
  /\ rr_i' = rr_i + 1
  /\ rr_bar' = rr_bar + 1
  /\ UNCHANGED rr_pc
  /\ UNCHANGED <<cnVars, wkVars, fsVars, gsVars, rasterVars, extVars>>

\* else branch: reclassify_raster raises in the calling process
ReclassifyRastersSequentialRaise ==
  /\ rr_pc = "sequential"
  /\ rr_i < Len(rr_task)
  /\ rr_task' = [rr_task EXCEPT ![rr_i + 1] = "failed"]
  /\ rr_pc' = "raised"
  /\ UNCHANGED <<rr_i, rr_bar, rr_out>>
  /\ UNCHANGED <<cnVars, wkVars, fsVars, gsVars, rasterVars, extVars>>

---------------------------------------------------------------------------
(* The trajectories stage of apply_cdl_data_to_parcels: one
   calculate_pixel_trajectories task per feature of parcels_gdf, each with
   the temp folder ./working/temp/trajectories/{parcelnumb}. *)

ParcelsIdle ==
  /\ pt_parcelnumb = <<>>
  /\ pt_workers = 0
  /\ pt_pc = <<>>
  /\ pt_i = 0
  /\ pt_temp = {}
  /\ pt_drv = "idle"

\* the stage at `for index, feature in parcels_gdf.iterrows()`
ParcelsCall(parcelnumbs, max_workers) ==
  /\ pt_parcelnumb = parcelnumbs
  /\ pt_workers = max_workers
  /\ pt_pc = [t \in DOMAIN parcelnumbs |-> "new"]
  /\ pt_i = 0
  /\ pt_temp = {}
  /\ pt_drv = "submit"

\* temp_folder_path of task t: f'./working/temp/trajectories/{parcelnumb}'
TempFolder(t) == pt_parcelnumb[t]

\* the tasks a worker process is running
Running == {t \in DOMAIN pt_pc : pt_pc[t] \in {"boolean", "diff", "rmtree"}}

\* executor.submit(calculate_pixel_trajectories, ...); futures.append(...)
ParcelsSubmit ==
  /\ pt_drv = "submit"
  /\ pt_i < Len(pt_pc)
  /\ pt_pc' = [pt_pc EXCEPT ![pt_i + 1] = "queued"]
  /\ pt_i' = pt_i + 1
  /\ UNCHANGED <<pt_parcelnumb, pt_workers, pt_temp, pt_drv>>
  /\ UNCHANGED <<cnVars, wkVars, fsVars, gsVars, rrVars, rasterVars, plVars, roVars, dtVars>>

\* a free worker process of the pool takes the task
ParcelStart(t) ==
  /\ pt_pc[t] = "queued"
  /\ Cardinality(Running) < pt_workers
  /\ pt_pc' = [pt_pc EXCEPT ![t] = "boolean"]
  /\ UNCHANGED <<pt_parcelnumb, pt_workers, pt_i, pt_temp, pt_drv>>
  /\ UNCHANGED <<cnVars, wkVars, fsVars, gsVars, rrVars, rasterVars, plVars, roVars, dtVars>>

\* the loop of reclassify_rasters calls has written the boolean rasters into
\* {temp_folder_path}/boolean_class/{class_num}
ParcelBoolean(t) ==
  /\ pt_pc[t] = "boolean"
  /\ pt_temp' = pt_temp \cup {TempFolder(t)}
  /\ pt_pc' = [pt_pc EXCEPT ![t] = "diff"]
  /\ UNCHANGED <<pt_parcelnumb, pt_workers, pt_i, pt_drv>>
  /\ UNCHANGED <<cnVars, wkVars, fsVars, gsVars, rrVars, rasterVars, plVars, roVars, dtVars>>

\* the second loop reads the boolean rasters back: rasterio.open raises when
\* they are gone
ParcelDiff(t) ==
  /\ pt_pc[t] = "diff"
  /\ pt_pc' = [pt_pc EXCEPT ![t] = IF TempFolder(t) \in pt_temp THEN "rmtree" ELSE "raised"]
  /\ UNCHANGED <<pt_parcelnumb, pt_workers, pt_i, pt_temp, pt_drv>>
  /\ UNCHANGED <<cnVars, wkVars, fsVars, gsVars, rrVars, rasterVars, plVars, roVars, dtVars>>

\* shutil.rmtree(temp_folder_path) removes the folder, or raises when it does
\* not exist; then the task returns its dict
ParcelRmtree(t) ==
  /\ pt_pc[t] = "rmtree"
  /\ pt_temp' = pt_temp \ {TempFolder(t)}
  /\ pt_pc' = [pt_pc EXCEPT ![t] = IF TempFolder(t) \in pt_temp THEN "returned" ELSE "raised"]
  /\ UNCHANGED <<pt_parcelnumb, pt_workers, pt_i, pt_drv>>
  /\ UNCHANGED <<cnVars, wkVars, fsVars, gsVars, rrVars, rasterVars, plVars, roVars, dtVars>>

\* as_completed has yielded every future; future.result() of each is
\* appended to trajectories, or re-raises the task's exception
ParcelsResults ==
  /\ pt_drv = "submit"
  /\ pt_i = Len(pt_pc)
  /\ \A t \in DOMAIN pt_pc : pt_pc[t] \in {"returned", "raised"}
  /\ pt_drv' = IF \E t \in DOMAIN pt_pc : pt_pc[t] = "raised" THEN "raised" ELSE "done"
  /\ UNCHANGED <<pt_parcelnumb, pt_workers, pt_pc, pt_i, pt_temp>>
  /\ UNCHANGED <<cnVars, wkVars, fsVars, gsVars, rrVars, rasterVars, plVars, roVars, dtVars>>

---------------------------------------------------------------------------
(* process_layer of filter_spatial_within: the layer is cut into chunks, one
   __filter_features task per chunk, and the tasks' results are flattened
   into records. *)

LayerIdle ==
  /\ pl_layer = <<>>
  /\ pl_invert = FALSE
  /\ pl_futures = <<>>
  /\ pl_completed = <<>>
  /\ pl_records = <<>>
  /\ pl_pc = "idle"

\* feature_geom.within(filter_geom).any(), negated when invert is set
IsWithin(feature, invert) == (feature.within # {}) # invert

RECURSIVE FilterFeatures(_, _, _)
\* __filter_features: features_to_return after the first n features
FilterFeatures(features, invert, n) ==
  IF n = 0 THEN <<>>
  ELSE IF IsWithin(features[n], invert)
         THEN Append(FilterFeatures(features, invert, n - 1), features[n])
         ELSE FilterFeatures(features, invert, n - 1)

\* chunker(seq, size): seq[pos:pos + size] for pos in range(0, len(seq), size)
Chunks(seq, size) ==
  [k \in DOMAIN Chunker(Len(seq), size) |->
     SubSeq(seq, (k - 1) * size + 1, (k - 1) * size + Chunker(Len(seq), size)[k])]

\* process_layer at the loop over chunker(layer, batch_size): no future is
\* submitted yet
LayerCall(layer, invert, batch_size) ==
  /\ pl_layer = layer
  /\ pl_invert = invert
  /\ pl_futures = [k \in DOMAIN Chunks(layer, batch_size) |->
                     [features |-> Chunks(layer, batch_size)[k], state |-> "new", res |-> <<>>]]
  /\ pl_completed = <<>>
  /\ pl_records = <<>>
  /\ pl_pc = "submit"

\* future = executor.submit(__filter_features, chunk, ...); futures.append(future)
LayerSubmit ==
  /\ pl_pc = "submit"
  /\ \E k \in DOMAIN pl_futures :
       /\ pl_futures[k].state = "new"
       /\ \A j \in 1..(k - 1) : pl_futures[j].state # "new"
       /\ pl_futures' = [pl_futures EXCEPT ![k].state = "queued"]
  /\ UNCHANGED <<pl_layer, pl_invert, pl_completed, pl_records, pl_pc>>
  /\ UNCHANGED <<cnVars, wkVars, fsVars, gsVars, rrVars, rasterVars, ptVars, roVars, dtVars>>

\* a worker process runs __filter_features on chunk k and returns
\* (features_to_return, len(features))
LayerTask(k) ==
  /\ pl_futures[k].state = "queued"
  /\ pl_futures' = [pl_futures EXCEPT
                      ![k].state = "done",
                      ![k].res = FilterFeatures(pl_futures[k].features, pl_invert,
                                                Len(pl_futures[k].features))]
  /\ pl_completed' = Append(pl_completed, k)
  /\ UNCHANGED <<pl_layer, pl_invert, pl_records, pl_pc>>
  /\ UNCHANGED <<cnVars, wkVars, fsVars, gsVars, rrVars, rasterVars, ptVars, roVars, dtVars>>

\* mutant: the results are taken in the order the futures completed
CompileOrder_AsCompleted(futures, completed) == completed

\* for future in futures: the futures in the order they were submitted
CompileOrder(futures, completed) == [k \in DOMAIN futures |-> k]

RECURSIVE Compile(_, _, _)
\* [record for records in batched_records() for record in records] over the
\* first n futures of the order
Compile(futures, order, n) ==
  IF n = 0 THEN <<>>
  ELSE Compile(futures, order, n - 1) \o futures[order[n]].res

\* as_completed has yielded every future; res = future.result() and
\* yield res[0] for each, flattened into records
LayerCompile ==
  /\ pl_pc = "submit"
  /\ \A k \in DOMAIN pl_futures : pl_futures[k].state = "done"
  /\ pl_records' = Compile(pl_futures, CompileOrder(pl_futures, pl_completed), Len(pl_futures))
  /\ pl_pc' = "compiled"
  /\ UNCHANGED <<pl_layer, pl_invert, pl_futures, pl_completed>>
  /\ UNCHANGED <<cnVars, wkVars, fsVars, gsVars, rrVars, rasterVars, ptVars, roVars, dtVars>>

---------------------------------------------------------------------------
(* The summary stage of apply_cdl_data_to_parcels: the consolidated rasters
   are listed by year, reordered and summarised one after the other. *)

ReorderIdle ==
  /\ ro_list = <<>>
  /\ ro_reordered = <<>>
  /\ ro_i = 0
  /\ ro_summary = <<>>
  /\ ro_pc = "idle"

\* the summary stage after consolidated_rasters_list is built: the rasters
\* {year}_30m_cdls.tif of the folder, sorted by year
ReorderCall(years) ==
  /\ ro_list = SortAscending(years)
  /\ ro_reordered = <<>>
  /\ ro_i = 0
  /\ ro_summary = <<>>
  /\ ro_pc = "listed"

\* a slice bound of Python: a negative bound counts from the end, and every
\* bound is clamped to 0..len
SliceBound(i, len) ==
  IF i < 0
    THEN (IF i + len < 0 THEN 0 ELSE i + len)
    ELSE (IF i > len THEN len ELSE i)

\* list[start:stop]
Slice(list, start, stop) ==
  SubSeq(list, SliceBound(start, Len(list)) + 1, SliceBound(stop, Len(list)))

\* list[start:]
SliceFrom(list, start) == SubSeq(list, SliceBound(start, Len(list)) + 1, Len(list))

\* consolidated_rasters_list[0:1] + consolidated_rasters_list[-1:]
\*   + consolidated_rasters_list[1:-1]
Reordered(list) == Slice(list, 0, 1) \o SliceFrom(list, -1) \o Slice(list, 1, -1)

\* reordered_consolidated_rasters_list = ...
ReorderApply ==
  /\ ro_pc = "listed"
  /\ ro_reordered' = Reordered(ro_list)
  /\ ro_pc' = "summary"
  /\ UNCHANGED <<ro_list, ro_i, ro_summary>>
  /\ UNCHANGED <<cnVars, wkVars, fsVars, gsVars, rrVars, rasterVars, ptVars, plVars, dtVars>>

\* generate_summary_data summarises the next raster of the list it is given
\* and yields { 'cropland_year': year, 'data': data }
ReorderSummarise ==
  /\ ro_pc = "summary"
  /\ ro_i < Len(ro_reordered)
  /\ ro_summary' = Append(ro_summary, ro_reordered[ro_i + 1])
  /\ ro_i' = ro_i + 1
  /\ UNCHANGED <<ro_list, ro_reordered, ro_pc>>
  /\ UNCHANGED <<cnVars, wkVars, fsVars, gsVars, rrVars, rasterVars, ptVars, plVars, dtVars>>

\* summary_data = list(generate_summary_data(...)) is complete
ReorderDone ==
  /\ ro_pc = "summary"
  /\ ro_i = Len(ro_reordered)
  /\ ro_pc' = "done"
  /\ UNCHANGED <<ro_list, ro_reordered, ro_i, ro_summary>>
  /\ UNCHANGED <<cnVars, wkVars, fsVars, gsVars, rrVars, rasterVars, ptVars, plVars, dtVars>>

---------------------------------------------------------------------------
(* calculate_and_rename_columns of join_pixel_counts_to_featurs: the two
   totals computed for a row of tidy_df. *)

TotalsIdle ==
  /\ dt_columns = {}
  /\ dt_counts = <<>>
  /\ dt_developed_total = 0
  /\ dt_cropland_and_grassland_total = 0
  /\ dt_pc = "idle"

\* calculate_and_rename_columns on a tidy_df with the given pixel_counts
\* columns, followed for one of its rows
TotalsCall(columns, counts) ==
  /\ dt_columns = columns
  /\ dt_counts = counts
  /\ dt_developed_total = 0
  /\ dt_cropland_and_grassland_total = 0
  /\ dt_pc = "called"

\* the classes named by the expression of developed_total
DevelopedClasses == <<10, 11, 12, 13, 14>>

\* the classes named by the expression of cropland_and_grassland_total
CroplandAndGrasslandClasses == <<1, 3>>

RECURSIVE ConditionalSum(_, _, _, _)
\* the value of
\*   df[c1] if c1 in df.columns else 0 + df[c2] if c2 in df.columns else 0 + ...
\* from its k-th class on: `+` binds tighter than `if ... else`, so each
\* `else` holds the whole rest of the expression, `0 + df[c]` being the
\* value of the next conditional
ConditionalSum(columns, counts, classes, k) ==
  IF k > Len(classes) THEN 0
  ELSE IF classes[k] \in columns
         THEN (IF k = 1 THEN counts[classes[k]] ELSE 0 + counts[classes[k]])
         ELSE ConditionalSum(columns, counts, classes, k + 1)

\* pixel_summaries_tidy['developed_total'] = ...
TotalsDeveloped ==
  /\ dt_pc = "called"
  /\ dt_developed_total' = ConditionalSum(dt_columns, dt_counts, DevelopedClasses, 1)
  /\ dt_pc' = "developed"
  /\ UNCHANGED <<dt_columns, dt_counts, dt_cropland_and_grassland_total>>
  /\ UNCHANGED <<cnVars, wkVars, fsVars, gsVars, rrVars, rasterVars, ptVars, plVars, roVars>>

\* pixel_summaries_tidy['cropland_and_grassland_total'] = ...
TotalsCroplandAndGrassland ==
  /\ dt_pc = "developed"
  /\ dt_cropland_and_grassland_total' =
       ConditionalSum(dt_columns, dt_counts, CroplandAndGrasslandClasses, 1)
  /\ dt_pc' = "done"
  /\ UNCHANGED <<dt_columns, dt_counts, dt_developed_total>>
  /\ UNCHANGED <<cnVars, wkVars, fsVars, gsVars, rrVars, rasterVars, ptVars, plVars, roVars>>

\* none of the later stages is running
ExtIdle == ParcelsIdle /\ LayerIdle /\ ReorderIdle /\ TotalsIdle

\* no parallel driver is running
ParallelIdle ==
  CounterIdle /\ WorkersIdle /\ FilterIdle /\ SummaryIdle /\ BatchIdle /\ ExtIdle

---------------------------------------------------------------------------
(* Inputs of reclassify_raster. *)

\* every ordering of the items of a dict
Orderings(items) ==
  {s \in [1..Cardinality(items) -> items] : \A i, j \in DOMAIN s : i # j => s[i] # s[j]}

\* a table whose original lists partition the raw codes 0..255 and whose
\* keys are raw codes of other items
PartitionItems ==
  { RemapItem(2, Name_A, {0, 1}),
    RemapItem(1, Name_B, {2} \cup (128..255)),
    RemapItem(254, Name_background, 3..127) }

\* a table in which raw 190 is listed under both items, as it is under
\* 21 and 22 in reclass_spec, and each key is a raw code of the other item
OverlapItems ==
  { RemapItem(2, Name_A, {1, 190}),
    RemapItem(1, Name_B, {2, 190}) }

\* a table with the key 0 (as 'nodata' has in consolidate_cropland.py) whose
\* item lists a raw code (87) that a later item lists too
ZeroKeyRemap ==
  << RemapItem(0, Name_nodata, {81, 87}),
     RemapItem(3, Name_grassland, {0, 87}) >>

\* the identity table: every code c of 1..255 is an item with original [c]
IdentityRemap == [c \in 1..255 |-> RemapItem(c, <<"c">>, {c})]

\* raw pixel values of the bands explored with the identity table
IdentityRawValues == {0, 1, 128, 255}

ReclassifyTables ==
  {reclass_spec, ZeroKeyRemap} \cup Orderings(PartitionItems) \cup Orderings(OverlapItems)
    \cup {BooleanRemap(1, Name_crops), BooleanRemap(254, Name_background)}

\* raw pixel values of the explored bands: background, crops, idle-range
\* neighbours, a raw code of no item of reclass_spec (81), wetlands (87),
\* the doubly listed 190, and 254
ReclassifyRawValues == {0, 1, 2, 81, 87, 190, 254}

InitReclassify ==
  /\ \/ \E band1 \in BandsUpTo(MaxRasterPixels, ReclassifyRawValues) :
          \E remap \in ReclassifyTables : ReclassifyCall(band1, remap)
     \/ \E band1 \in BandsUpTo(MaxRasterPixels, IdentityRawValues) :
          ReclassifyCall(band1, IdentityRemap)
  /\ DiffIdle
  /\ TrajectoriesIdle
  /\ ParallelIdle

NextReclassify == ReclassifyLoop \/ ReclassifyWrite

SpecReclassify == InitReclassify /\ [][NextReclassify]_vars

---------------------------------------------------------------------------
(* Inputs of compute_raster_class_difference. *)

\* the table of the end-to-end scenario: 1 where 1 -> 2, 254 where 2 -> 1
ScenarioDiff == << DiffItem(1, {1}, {2}), DiffItem(254, {2}, {1}) >>

\* a table in which the pairs (1, 2) and (2, 2) match more than one item
OverlapDiffItems ==
  { DiffItem(5, {1, 2}, {2}), DiffItem(7, {1}, {1, 2}), DiffItem(9, {2}, {2}) }

\* a table with the reserved code 0
ZeroDiff == << DiffItem(0, {1}, {1}), DiffItem(1, {1}, {2}) >>

DiffTables == {BooleanDiff, ScenarioDiff, ZeroDiff} \cup Orderings(OverlapDiffItems)

DiffPixelValues == {0, 1, 2}

InitDiff ==
  /\ \E from_data \in BandsUpTo(MaxRasterPixels, DiffPixelValues) :
       \E to_data \in BandsUpTo(MaxRasterPixels, DiffPixelValues) :
         \E remap \in DiffTables : \E out \in BOOLEAN :
           DiffCall(from_data, to_data, remap, out)
  /\ ReclassifyIdle
  /\ TrajectoriesIdle
  /\ ParallelIdle

NextDiff == DiffShapeError \/ DiffZeroError \/ DiffBegin \/ DiffLoop \/ DiffWrite

SpecDiff == InitDiff /\ [][NextDiff]_vars

---------------------------------------------------------------------------
(* Inputs of calculate_pixel_trajectories. *)

\* the years of a folder of n rasters named by consecutive years
FolderYears(n) == {2020 + k : k \in 1..n}

\* every folder of equal-shape rasters with at most MaxStackCells cells
Folders(codes) ==
  UNION { [FolderYears(d[3]) -> Bands(d[1], d[2], codes)] :
            d \in {e \in (1..MaxStackCells) \X (1..MaxStackCells) \X (1..MaxStackCells) :
                     e[1] * e[2] * e[3] <= MaxStackCells} }

\* the two classes A and B of the fixture
FixtureSpec == << RemapItem(1, Name_A, {1}), RemapItem(2, Name_B, {2}) >>

\* the fixture: 3 pixels over 3 years, pixel 1: A, B, B; pixel 2: A, A, A;
\* pixel 3: A, B, A
FixtureFolder ==
  [year \in FolderYears(3) |->
     IF year = 2021 THEN << <<1, 1, 1>> >>
     ELSE IF year = 2022 THEN << <<2, 1, 2>> >>
     ELSE << <<2, 1, 1>> >>]

\* the items 254 'background', 21 'wetlands' and 22 'woody_wetlands' of the
\* repository's table
WetlandsSpec == << reclass_spec[1], reclass_spec[14], reclass_spec[15] >>

\* a table with an item for class 0, which both class loops skip
ZeroClassSpec ==
  << RemapItem(0, Name_nodata, {81, 88}), RemapItem(1, Name_crops, reclass_spec[2].original) >>

\* the tables with the pixel values of the folders explored with each:
\* 0 and 81 are codes of no tracked class
TrajectoryInputs ==
  { [spec |-> FixtureSpec, codes |-> {0, 1, 2}],
    [spec |-> WetlandsSpec, codes |-> {21, 22, 254}],
    [spec |-> ZeroClassSpec, codes |-> {0, 1, 81}] }

InitTrajectories ==
  /\ \/ \E input \in TrajectoryInputs : \E folder \in Folders(input.codes) :
          TrajectoriesCall(folder, input.spec)
     \/ TrajectoriesCall(FixtureFolder, FixtureSpec)
  /\ tr_faults = {}
  /\ ReclassifyIdle
  /\ DiffIdle
  /\ ParallelIdle

NextTrajectories ==
  \/ TrajectoriesBoolean
  \/ TrajectoriesDiff
  \/ TrajectoriesTensor
  \/ TrajectoriesWalk
  \/ TrajectoriesSave

SpecTrajectories == InitTrajectories /\ [][NextTrajectories]_vars

\* the cells of the tensor built for a folder and a table
TensorCells(folder, spec) ==
  (1..(Len(folder[2021]) * Len(folder[2021][1])))
    \X (1..Len(spec)) \X (1..Cardinality(DOMAIN folder))

\* calculate_pixel_trajectories on a small folder, some of the tensor's
\* assignments raising
InitTensor ==
  /\ \E folder \in {f \in Folders({1, 2}) :
                       Len(f[2021]) * Len(f[2021][1]) * Cardinality(DOMAIN f) <= MaxFaultyCells} :
       /\ TrajectoriesCall(folder, FixtureSpec)
       /\ \E faults \in SUBSET TensorCells(folder, FixtureSpec) :
            /\ Cardinality(faults) <= MaxFaults
            /\ tr_faults = faults
  /\ ReclassifyIdle
  /\ DiffIdle
  /\ ParallelIdle

SpecTensor == InitTensor /\ [][NextTrajectories]_vars

---------------------------------------------------------------------------
(* Inputs of the parallel drivers. *)

InitFilter ==
  /\ \E len \in 1..MaxFeatures : \E batch_size \in 1..len :
       FilterCall(Chunker(len, batch_size))
  /\ SummaryIdle
  /\ BatchIdle
  /\ ExtIdle
  /\ ReclassifyIdle
  /\ DiffIdle
  /\ TrajectoriesIdle

NextFilter ==
  \/ FilterEnter
  \/ FilterSubmit
  \/ FilterAsCompleted
  \/ FilterExit
  \/ FilterCompile
  \/ Worker
  \/ Watcher

SpecFilter == InitFilter /\ [][NextFilter]_vars

\* process_layer.batched_records with a callback that may raise
InitWatcher ==
  /\ \E len \in 1..MaxWatched : \E batch_size \in 1..len :
       FilterCall(Chunker(len, batch_size))
  /\ SummaryIdle
  /\ BatchIdle
  /\ ExtIdle
  /\ ReclassifyIdle
  /\ DiffIdle
  /\ TrajectoriesIdle

NextWatcher ==
  \/ NextFilter
  \/ WatcherCallbackRaise

SpecWatcher == InitWatcher /\ [][NextWatcher]_vars

InitSummary ==
  /\ \E years \in 1..MaxFeatures : \E feature_count \in 1..MaxFeatures :
       /\ years * feature_count <= MaxFeatures
       /\ SummaryCall(years, feature_count)
  /\ FilterIdle
  /\ BatchIdle
  /\ ExtIdle
  /\ ReclassifyIdle
  /\ DiffIdle
  /\ TrajectoriesIdle

NextSummary ==
  \/ SummaryEnter
  \/ SummarySubmit
  \/ SummarySubmitted
  \/ SummaryWaitOver
  \/ SummaryResults
  \/ SummaryExit
  \/ SummaryTask
  \/ Watcher

SpecSummary == InitSummary /\ [][NextSummary]_vars

InitBatch ==
  /\ \E files \in 0..MaxBatchFiles : \E use_multiprocessing \in BOOLEAN :
       ReclassifyRastersCall(files, use_multiprocessing)
  /\ CounterIdle
  /\ WorkersIdle
  /\ FilterIdle
  /\ SummaryIdle
  /\ ExtIdle
  /\ ReclassifyIdle
  /\ DiffIdle
  /\ TrajectoriesIdle

NextBatch ==
  \/ ReclassifyRastersSubmit
  \/ \E t \in DOMAIN rr_task : TaskDone(t)
  \/ \E t \in DOMAIN rr_task : TaskRaise(t)
  \/ ReclassifyRastersAsCompleted
  \/ ReclassifyRastersReturn
  \/ ReclassifyRastersSequential
  \/ ReclassifyRastersSequentialRaise

SpecBatch == InitBatch /\ [][NextBatch]_vars

---------------------------------------------------------------------------
(* Inputs of the trajectories stage. *)

\* every column of parcelnumb values over at most MaxFeatures features
ParcelNumbs ==
  UNION {[1..n -> 1..MaxParcelNumbs] : n \in 1..MaxFeatures}

InitParcels ==
  /\ \E parcelnumbs \in ParcelNumbs : \E max_workers \in 1..MaxPool :
       ParcelsCall(parcelnumbs, max_workers)
  /\ LayerIdle
  /\ ReorderIdle
  /\ TotalsIdle
  /\ CounterIdle
  /\ WorkersIdle
  /\ FilterIdle
  /\ SummaryIdle
  /\ BatchIdle
  /\ ReclassifyIdle
  /\ DiffIdle
  /\ TrajectoriesIdle

NextParcels ==
  \/ ParcelsSubmit
  \/ \E t \in DOMAIN pt_pc : ParcelStart(t)
  \/ \E t \in DOMAIN pt_pc : ParcelBoolean(t)
  \/ \E t \in DOMAIN pt_pc : ParcelDiff(t)
  \/ \E t \in DOMAIN pt_pc : ParcelRmtree(t)
  \/ ParcelsResults

SpecParcels == InitParcels /\ [][NextParcels]_vars

---------------------------------------------------------------------------
(* Inputs of process_layer. *)

\* every layer of at most MaxFeatures features, each within some of the
\* filter layer's geometries; a feature's id is its position in the layer
Layers ==
  UNION {{[i \in 1..n |-> [id |-> i, within |-> w[i]]] :
            w \in [1..n -> SUBSET (1..MaxFilterGeoms)]} : n \in 1..MaxFeatures}

InitLayer ==
  /\ \E layer \in Layers : \E invert \in BOOLEAN : \E batch_size \in 1..Len(layer) :
       LayerCall(layer, invert, batch_size)
  /\ ParcelsIdle
  /\ ReorderIdle
  /\ TotalsIdle
  /\ CounterIdle
  /\ WorkersIdle
  /\ FilterIdle
  /\ SummaryIdle
  /\ BatchIdle
  /\ ReclassifyIdle
  /\ DiffIdle
  /\ TrajectoriesIdle

NextLayer ==
  \/ LayerSubmit
  \/ \E k \in DOMAIN pl_futures : LayerTask(k)
  \/ LayerCompile

SpecLayer == InitLayer /\ [][NextLayer]_vars

---------------------------------------------------------------------------
(* Inputs of the summary stage. *)

InitReorder ==
  /\ \E years \in SUBSET FolderYears(MaxFolderYears) : ReorderCall(years)
  /\ ParcelsIdle
  /\ LayerIdle
  /\ TotalsIdle
  /\ CounterIdle
  /\ WorkersIdle
  /\ FilterIdle
  /\ SummaryIdle
  /\ BatchIdle
  /\ ReclassifyIdle
  /\ DiffIdle
  /\ TrajectoriesIdle

NextReorder ==
  \/ ReorderApply
  \/ ReorderSummarise
  \/ ReorderDone

SpecReorder == InitReorder /\ [][NextReorder]_vars

---------------------------------------------------------------------------
(* Inputs of calculate_and_rename_columns. *)

\* the classes whose columns the two totals read
TotalClasses == {1, 3, 10, 11, 12, 13, 14}

InitTotals ==
  /\ \E columns \in SUBSET TotalClasses : \E counts \in [columns -> 0..MaxPixelCount] :
       TotalsCall(columns, counts)
  /\ ParcelsIdle
  /\ LayerIdle
  /\ ReorderIdle
  /\ CounterIdle
  /\ WorkersIdle
  /\ FilterIdle
  /\ SummaryIdle
  /\ BatchIdle
  /\ ReclassifyIdle
  /\ DiffIdle
  /\ TrajectoriesIdle

NextTotals ==
  \/ TotalsDeveloped
  \/ TotalsCroplandAndGrassland

SpecTotals == InitTotals /\ [][NextTotals]_vars

\* reclassify_rasters as a batch, and calculate_pixel_trajectories whose
\* boolean stage calls it once per class
InitStages == InitBatch \/ InitTrajectories

NextStages == NextBatch \/ NextTrajectories

SpecStages == InitStages /\ [][NextStages]_vars

---------------------------------------------------------------------------
(* Claims about reclassify_raster, checked under SpecReclassify. *)

\* every key of the table is a class code 1..255
KeysIn1To255(remap) == \A i \in DOMAIN remap : remap[i].key \in 1..255

\* the items whose original list holds the raw value v
ItemsListing(remap, v) == {i \in DOMAIN remap : v \in remap[i].original}

\* each raw code is in the original list of exactly one item
PartitionsRawCodes(remap) ==
  \A v \in RawCodes : Cardinality(ItemsListing(remap, v)) = 1

SetMin(S) == CHOOSE m \in S : \A n \in S : m <= n

SetMax(S) == CHOOSE m \in S : \A n \in S : m >= n

\* C5: with keys in 1..255 and original lists that partition the raw codes,
\* every pixel of the written raster holds the key of the one item that
\* lists the pixel's raw value, and every ordering of the same items gives
\* the same raster.
C5_PartitionGivesItemKey ==
  (rc_pc = "done" /\ KeysIn1To255(rc_remap) /\ PartitionsRawCodes(rc_remap)) =>
    /\ \A c \in Cells(rc_band1) :
         \E i \in DOMAIN rc_remap :
           /\ rc_band1[c[1]][c[2]] \in rc_remap[i].original
           /\ rc_file[c[1]][c[2]] = rc_remap[i].key
    /\ \A other \in Orderings(Range(rc_remap)) :
         ReclassifyBand(rc_band1, other) = rc_file

\* C5 witness: a finished call on a partitioning table in which a pixel got
\* a key that a later item lists as a raw code.
C5_Witness ==
  /\ rc_pc = "done"
  /\ KeysIn1To255(rc_remap)
  /\ PartitionsRawCodes(rc_remap)
  /\ \E c \in Cells(rc_band1) : \E i, j \in DOMAIN rc_remap :
       /\ i < j
       /\ rc_band1[c[1]][c[2]] \in rc_remap[i].original
       /\ rc_remap[i].key \in rc_remap[j].original
       /\ rc_file[c[1]][c[2]] = rc_remap[i].key

\* the pixel's raw value is listed by one of the first n items
MatchedWithin(c, n) ==
  \E i \in 1..n : rc_band1[c[1]][c[2]] \in rc_remap[i].original

\* C6: with keys in 1..255, a pixel that has matched an item is not changed
\* by any later item of the loop, and the written raster holds for it the
\* key of that first matching item.
C6_RewrittenAtMostOnce ==
  [][ (rc_pc = "loop" /\ KeysIn1To255(rc_remap)) =>
        \A c \in Cells(rc_band1) :
          MatchedWithin(c, rc_i) =>
            /\ rc_pc' = "loop" =>
                 rc_reclassified'[c[1]][c[2]] = rc_reclassified[c[1]][c[2]]
            /\ rc_pc' = "done" =>
                 rc_file'[c[1]][c[2]] =
                   rc_remap[SetMin(ItemsListing(rc_remap, rc_band1[c[1]][c[2]]))].key
    ]_vars

\* C6 witness: with the repository's table a raw 0 pixel, assigned 254 by
\* the first item, is written as 254 although 'crops' lists raw 254.
C6_Witness ==
  /\ rc_pc = "done"
  /\ rc_remap = reclass_spec
  /\ 254 \in rc_remap[2].original
  /\ \E c \in Cells(rc_band1) :
       rc_band1[c[1]][c[2]] = 0 /\ rc_file[c[1]][c[2]] = 254

\* C7 as claimed: a pixel whose raw value several items list holds the key
\* of the last of them in table order.
C7_LastListingItemWins ==
  rc_pc = "done" =>
    \A c \in Cells(rc_band1) :
      LET listing == ItemsListing(rc_remap, rc_band1[c[1]][c[2]])
      IN  Cardinality(listing) > 1 =>
            rc_file[c[1]][c[2]] = rc_remap[SetMax(listing)].key

\* C7 amended: with keys in 1..255, a pixel whose raw value several items
\* list holds the key of the first of them in table order.
C7_FirstListingItemWins ==
  (rc_pc = "done" /\ KeysIn1To255(rc_remap)) =>
    \A c \in Cells(rc_band1) :
      LET listing == ItemsListing(rc_remap, rc_band1[c[1]][c[2]])
      IN  Cardinality(listing) > 1 =>
            rc_file[c[1]][c[2]] = rc_remap[SetMin(listing)].key

\* C7 witness: with the repository's table a raw 190 pixel, listed under 21
\* and under the later 22, is written as 21.
C7_Witness ==
  /\ rc_pc = "done"
  /\ rc_remap = reclass_spec
  /\ ItemsListing(rc_remap, 190) = {14, 15}
  /\ \E c \in Cells(rc_band1) :
       rc_band1[c[1]][c[2]] = 190 /\ rc_file[c[1]][c[2]] = 21

---------------------------------------------------------------------------
(* Claims about compute_raster_class_difference, checked under SpecDiff. *)

\* the items of df_remap that match the pixel pair at cell c
MatchingItems(c) ==
  {i \in DOMAIN df_remap :
     /\ df_from[c[1]][c[2]] \in df_remap[i].from
     /\ df_to[c[1]][c[2]] \in df_remap[i].to}

\* C8: a returned diff raster holds 0 at a pixel exactly when no item
\* matches the pixel pair, and otherwise the key of a matching item; with
\* the scenario table it holds 1 where 1 -> 2, 254 where 2 -> 1, 0 elsewhere.
C8_ZeroIffNoMatch ==
  df_pc = "done" =>
    \A c \in Cells(df_from) :
      /\ (df_ret[c[1]][c[2]] = 0) <=> (MatchingItems(c) = {})
      /\ MatchingItems(c) # {} =>
           \E i \in MatchingItems(c) : df_ret[c[1]][c[2]] = df_remap[i].key
      /\ df_remap = ScenarioDiff =>
           df_ret[c[1]][c[2]] =
             IF df_from[c[1]][c[2]] = 1 /\ df_to[c[1]][c[2]] = 2 THEN 1
             ELSE IF df_from[c[1]][c[2]] = 2 /\ df_to[c[1]][c[2]] = 1 THEN 254
             ELSE 0

\* C8 witness: a finished call with the scenario table on a raster with a
\* 1 -> 2 pixel and a 2 -> 1 pixel.
C8_Witness ==
  /\ df_pc = "done"
  /\ df_remap = ScenarioDiff
  /\ \E c, d \in Cells(df_from) :
       /\ df_from[c[1]][c[2]] = 1 /\ df_to[c[1]][c[2]] = 2 /\ df_ret[c[1]][c[2]] = 1
       /\ df_from[d[1]][d[2]] = 2 /\ df_to[d[1]][d[2]] = 1 /\ df_ret[d[1]][d[2]] = 254

\* C9: where several items match a pixel pair, the returned raster holds
\* the key of the last matching item in table order.
C9_LastMatchWins ==
  df_pc = "done" =>
    \A c \in Cells(df_from) :
      MatchingItems(c) # {} =>
        df_ret[c[1]][c[2]] = df_remap[SetMax(MatchingItems(c))].key

\* C9 witness: a finished call in which two items with different keys match
\* the same pixel pair.
C9_Witness ==
  /\ df_pc = "done"
  /\ \E c \in Cells(df_from) : \E i, j \in MatchingItems(c) :
       /\ i < j
       /\ df_remap[i].key # df_remap[j].key
       /\ df_ret[c[1]][c[2]] = df_remap[j].key

\* the call's table has the key 0, or its rasters differ in shape
DiffCallInvalid ==
  \/ 0 \in {df_remap[i].key : i \in DOMAIN df_remap}
  \/ Len(df_from) # Len(df_to)
  \/ Len(df_from[1]) # Len(df_to[1])

\* C10: a call fails exactly when the table has key 0 or the shapes differ;
\* a failed call returns no raster and writes no output file, a call that
\* passed the checks is valid, and a finished call returned a raster.
C10_FailsIffInvalid ==
  /\ df_pc = "error" =>
       DiffCallInvalid /\ df_ret = NoArray /\ df_file = NoArray
  /\ df_pc \in {"loop", "done"} => ~DiffCallInvalid
  /\ df_pc = "done" => df_ret # NoArray /\ (df_out => df_file = df_ret)

\* C10 witness: a failed call that was given an output path and a table
\* with key 0 for equal-shape rasters; the file does not exist.
C10_Witness ==
  /\ df_pc = "error"
  /\ df_out
  /\ Shape(df_from) = Shape(df_to)
  /\ 0 \in {df_remap[i].key : i \in DOMAIN df_remap}
  /\ df_file = NoArray

---------------------------------------------------------------------------
(* Claims about calculate_pixel_trajectories, checked under SpecTrajectories. *)

\* the number of pixels of one raster of the folder
PixelsCount ==
  LET year == CHOOSE y \in DOMAIN tr_folder : TRUE
  IN  Len(tr_folder[year]) * Len(tr_folder[year][1])

\* the consolidated class codes c1..cN of pixel z (row-major) over the
\* year-sorted rasters
PixelCodes(z) ==
  LET years == SortAscending(DOMAIN tr_folder)
      cols == Len(tr_folder[years[1]][1])
  IN  [k \in 1..Len(years) |->
         tr_folder[years[k]][((z - 1) \div cols) + 1][((z - 1) % cols) + 1]]

\* the codes of the tracked classes: the keys of reclass_spec other than 0
TrackedCodes == {tr_spec[i].key : i \in DOMAIN tr_spec} \ {0}

\* the name of the tracked class with the code c
TrackedName(c) == tr_spec[CHOOSE i \in DOMAIN tr_spec : tr_spec[i].key = c].name

RECURSIVE ClaimedTokens(_, _)
\* the class names of the label C1 describes, for the first n years of codes
ClaimedTokens(codes, n) ==
  IF n = 0 THEN <<>>
  ELSE LET before == ClaimedTokens(codes, n - 1)
           gained == /\ codes[n] \in TrackedCodes
                     /\ n = 1 \/ codes[n] # codes[n - 1]
       IN  IF gained /\ (before = <<>> \/ before[Len(before)] # TrackedName(codes[n]))
             THEN Append(before, TrackedName(codes[n]))
             ELSE before

RECURSIVE JoinWithArrow(_, _)
\* the first n tokens joined by the arrow separator
JoinWithArrow(tokens, n) ==
  IF n = 0 THEN <<>>
  ELSE IF n = 1 THEN tokens[1]
  ELSE JoinWithArrow(tokens, n - 1) \o Arrow \o tokens[n]

\* the label of pixel z: its trajectory without the trailing separator
LabelOf(z) == SubSeq(tr_traj[z], 1, Len(tr_traj[z]) - Len(Arrow))

RECURSIVE SumValues(_, _)
\* the sum of the values of the first n items of a dict
SumValues(dict, n) == IF n = 0 THEN 0 ELSE SumValues(dict, n - 1) + dict[n].value

\* C1: the label of every pixel is the name of c1 if c1 is tracked, followed
\* by the name of every later ci that differs from c(i-1) and is tracked,
\* without a name equal to the previously recorded name, joined by the arrow.
C1_LabelOfGains ==
  tr_pc \in {"save", "done"} =>
    \A z \in DOMAIN tr_traj :
      LET tokens == ClaimedTokens(PixelCodes(z), Len(PixelCodes(z)))
      IN  LabelOf(z) = JoinWithArrow(tokens, Len(tokens))

Label_A == Name_A
Label_A_B == Name_A \o Arrow \o Name_B
Label_A_B_A == Name_A \o Arrow \o Name_B \o Arrow \o Name_A

\* the call is the fixture and has returned
FixtureReturned ==
  tr_pc = "done" /\ tr_folder = FixtureFolder /\ tr_spec = FixtureSpec

\* C2 as claimed: for the fixture the returned histogram has exactly the two
\* entries A -> B: 1 and A -> B -> A: 1, and pixel 2 has an empty label.
C2_FixtureTwoEntries ==
  FixtureReturned =>
    /\ Range(tr_ret) = { [key |-> Label_A_B, value |-> 1],
                         [key |-> Label_A_B_A, value |-> 1] }
    /\ tr_traj[2] = <<>>

\* C2 amended: for the fixture the returned histogram has exactly three
\* entries, A -> B: 1 (pixel 1), A -> B -> A: 1 (pixel 3) and A: 1 (pixel 2,
\* whose label is the first year's class A).
C2_FixtureThreeEntries ==
  FixtureReturned =>
    /\ Len(tr_ret) = 3
    /\ Range(tr_ret) = { [key |-> Label_A_B, value |-> 1],
                         [key |-> Label_A_B_A, value |-> 1],
                         [key |-> Label_A, value |-> 1] }
    /\ LabelOf(1) = Label_A_B
    /\ LabelOf(2) = Label_A
    /\ LabelOf(3) = Label_A_B_A

\* C2 witness: the fixture call has returned a histogram.
C2_Witness == FixtureReturned /\ tr_ret # NoDict

\* C3 as claimed: the counts of the returned histogram sum to the number of
\* pixels of the raster grid.
C3_CountsSumToPixels ==
  tr_pc = "done" => SumValues(tr_ret, Len(tr_ret)) = PixelsCount

\* the pixels whose code is a tracked class in at least one year
PixelsEverTracked ==
  {z \in 1..PixelsCount : \E k \in DOMAIN PixelCodes(z) : PixelCodes(z)[k] \in TrackedCodes}

\* C3 amended: the counts of the returned histogram sum to the number of
\* pixels whose code is a tracked class in at least one year; a pixel whose
\* code is 0 or an untracked code in every year contributes no count.
C3_CountsSumToTrackedPixels ==
  tr_pc = "done" => SumValues(tr_ret, Len(tr_ret)) = Cardinality(PixelsEverTracked)

\* C3 witness: a returned histogram of a grid in which one pixel is counted
\* and another, never of a tracked class, is not.
C3_Witness ==
  /\ tr_pc = "done"
  /\ PixelsEverTracked # {}
  /\ \E z \in 1..PixelsCount : z \notin PixelsEverTracked
  /\ SumValues(tr_ret, Len(tr_ret)) = Cardinality(PixelsEverTracked)

\* C4: the counts of the returned histogram sum to at most the number of
\* pixels of one raster of the stack.
C4_CountsAtMostPixels ==
  tr_pc = "done" => SumValues(tr_ret, Len(tr_ret)) <= PixelsCount

\* C4 witness: a returned histogram in which two pixels with several gains
\* share a label and every pixel of the grid is counted.
C4_Witness ==
  /\ tr_pc = "done"
  /\ \E i \in DOMAIN tr_ret : tr_ret[i].value >= 2 /\ Len(tr_ret[i].key) > Len(Name_woody_wetlands)
  /\ SumValues(tr_ret, Len(tr_ret)) = PixelsCount

---------------------------------------------------------------------------
(* Claims about multiprocess_counter, checked under SpecFilter. *)

\* the increments task w has performed: the features it has reported, and
\* the one whose write is done while the lock is still held
Performed(w) ==
  (wk_size[w] - wk_left[w]) + (IF wk_pc[w] = "release" THEN 1 ELSE 0)

RECURSIVE PerformedUpTo(_)
\* the increments performed by the tasks 1..n
PerformedUpTo(n) == IF n = 0 THEN 0 ELSE PerformedUpTo(n - 1) + Performed(n)

\* N: the increments performed by all tasks
TotalPerformed == PerformedUpTo(Len(wk_pc))

\* C11: once the scope has exited (and the watcher has made its last
\* callback), the deltas new - old of all callback invocations sum to the
\* number N of increments the workers performed inside the scope.
C11_DeltasSumToIncrements ==
  (cn_scope = "exited" /\ cn_wpc = "ended") => BarCurrent = TotalPerformed

\* C12: after all tasks of a batch have completed, the counter value equals
\* the total number of increments performed, whatever the interleaving of
\* the tasks' read-then-write increments and the watcher's polls.
C12_NoIncrementLost ==
  AllFinished => cn_value = TotalPerformed

\* C12 witness: a batch of several tasks has completed with three increments
\* in all, and the watcher polled the counter between them.
C12_Witness ==
  /\ Len(wk_pc) >= 2
  /\ AllFinished
  /\ \A w \in DOMAIN wk_pc : wk_pc[w] = "returned"
  /\ cn_value = 3
  /\ Len(cn_calls) >= 2

\* C13: observation is scoped: the watcher thread has been started whenever
\* the scope body runs, and once the scope has exited the callback is not
\* invoked again (the claim's third part, that the watcher loop ends, is a
\* liveness property and is not needed to refute the conjunction).
C13_ObservationScoped ==
  /\ [](cn_scope = "entered" => cn_wpc # "none")
  /\ [][cn_scope = "exited" => cn_calls' = cn_calls]_vars

---------------------------------------------------------------------------
(* Claim about the from/to symmetry of compute_raster_class_difference,
   checked under SpecDiff. *)

\* the table with each item's 'from' and 'to' swapped, keys and order kept
SwapFromTo(remap) ==
  [i \in DOMAIN remap |-> DiffItem(remap[i].key, remap[i].to, remap[i].from)]

\* C14: for equal-shape rasters F, T and a table D without the key 0, the
\* call on (T, F) with the from/to-swapped table returns pixel for pixel the
\* raster that the call on (F, T) with D returns.
C14_SwapSymmetry ==
  df_pc = "done" =>
    /\ ~ShapesDiffer(df_to, df_from)
    /\ \A i \in DOMAIN df_remap : df_remap[i].key # 0
    /\ DiffBand(df_to, df_from, SwapFromTo(df_remap)) = df_ret

\* C14 witness: a call that returned a raster with a coded pixel, for two
\* different rasters and a table that the swap changes, where swapping the
\* rasters alone would give another result.
C14_Witness ==
  /\ df_pc = "done"
  /\ df_from # df_to
  /\ SwapFromTo(df_remap) # df_remap
  /\ \E c \in Cells(df_ret) : df_ret[c[1]][c[2]] # 0
  /\ DiffBand(df_to, df_from, df_remap) # df_ret

---------------------------------------------------------------------------
(* Frame and idempotence claims about reclassify_raster, checked under
   SpecReclassify. *)

\* C15: a pixel whose raw value is in no item's 'original' list has in the
\* output exactly the value it has in the input.
C15_UnmatchedKeepsValue ==
  rc_pc = "done" =>
    \A c \in Cells(rc_band1) :
      ItemsListing(rc_remap, rc_band1[c[1]][c[2]]) = {} =>
        rc_file[c[1]][c[2]] = rc_band1[c[1]][c[2]]

\* C15 witness: a written raster with a nonzero pixel that no item lists
\* next to a pixel that an item rewrote.
C15_Witness ==
  /\ rc_pc = "done"
  /\ \E c \in Cells(rc_band1) :
       /\ ItemsListing(rc_remap, rc_band1[c[1]][c[2]]) = {}
       /\ rc_band1[c[1]][c[2]] # 0
  /\ \E c \in Cells(rc_band1) :
       /\ ItemsListing(rc_remap, rc_band1[c[1]][c[2]]) # {}
       /\ rc_file[c[1]][c[2]] # rc_band1[c[1]][c[2]]

\* C16: with the identity table, reclassifying the output of reclassify_raster
\* again yields that output.
C16_IdentityTwiceIsOnce ==
  (rc_pc = "done" /\ rc_remap = IdentityRemap) =>
    ReclassifyBand(rc_file, rc_remap) = rc_file

\* C16 witness: the identity table was applied to a raster that holds the
\* largest code 255 and a second, different value.
C16_Witness ==
  /\ rc_pc = "done"
  /\ rc_remap = IdentityRemap
  /\ \E c, d \in Cells(rc_band1) :
       /\ rc_band1[c[1]][c[2]] = 255
       /\ rc_band1[d[1]][d[2]] \in 1..254
  /\ rc_file = rc_band1

---------------------------------------------------------------------------
(* Claim about reclassify_rasters, checked under SpecBatch. *)

\* C17: if a worker task of the parallel batch raised, reclassify_rasters
\* does not return normally.
C17_TaskFailureFailsBatch ==
  rr_pc = "returned" => \A t \in DOMAIN rr_task : rr_task[t] # "failed"

---------------------------------------------------------------------------
(* Claim about generate_summary_data, checked under SpecSummary. *)

\* a task raised before it reported all of its features
FailedEarly == \E w \in DOMAIN wk_pc : wk_pc[w] = "raised" /\ wk_left[w] > 0

\* C18: generate_summary_data always terminates: when a task has failed
\* before reporting all of its features, every task has ended and every
\* increment made has been passed to the bar, so that bar.current can grow
\* no further, the driver is not left in its wait loop.
C18_DriverStopsWaiting ==
  (FailedEarly /\ AllFinished /\ BarCurrent = cn_value) => gs_pc # "wait"

---------------------------------------------------------------------------
(* Claims about the walk of calculate_pixel_trajectories, checked under
   SpecTrajectories. *)

RECURSIVE GainedNames(_, _)
\* the names of the classes pixel z gains in the first n year ranges, as the
\* walk reads them from the tensor (the first class that holds 1)
GainedNames(z, n) ==
  IF n = 0 THEN <<>>
  ELSE LET before == GainedNames(z, n - 1)
           gained == {ci \in DOMAIN tr_diff : tr_array[z][ci][n] = 1}
       IN  IF gained = {} THEN before
           ELSE Append(before,
                  NameOf(tr_spec, tr_diff[CHOOSE ci \in gained : \A cj \in gained : ci <= cj].class_num))

RECURSIVE RecordedNames(_, _)
\* the first n gained names, each skipped exactly when it is identical to
\* the name recorded last
RecordedNames(gains, n) ==
  IF n = 0 THEN <<>>
  ELSE LET before == RecordedNames(gains, n - 1)
       IN  IF before # <<>> /\ before[Len(before)] = gains[n]
             THEN before
             ELSE Append(before, gains[n])

RECURSIVE EachWithArrow(_, _)
\* the first n names, each followed by the arrow separator
EachWithArrow(names, n) ==
  IF n = 0 THEN <<>> ELSE EachWithArrow(names, n - 1) \o names[n] \o Arrow

\* C19: in every pixel's walk a gained class name is skipped exactly when it
\* is identical to the name recorded immediately before it, whatever the
\* names (one may be a suffix of another); so the trajectory is the gained
\* names without adjacent repeats and no change of name is dropped.
C19_SkipsExactlyRepeatedName ==
  tr_pc \in {"save", "done"} =>
    \A z \in DOMAIN tr_traj :
      LET gains == GainedNames(z, Len(tr_diff[1].layers))
          names == RecordedNames(gains, Len(gains))
      IN  tr_traj[z] = EachWithArrow(names, Len(names))

RECURSIVE Tokens(_, _)
\* the class names of a label: the first n characters split at the arrows
Tokens(label, n) ==
  IF n = 0 THEN << <<>> >>
  ELSE IF n >= Len(Arrow) /\ SubSeq(label, n - Len(Arrow) + 1, n) = Arrow
    THEN Append(Tokens(label, n - Len(Arrow)), <<>>)
  ELSE LET before == Tokens(label, n - 1)
       IN  [before EXCEPT ![Len(before)] = Append(@, label[n])]

\* C20: with the items of the repository's table, in which raw 0 is the
\* class 254 named 'background', no label of the returned histogram has the
\* token 'background'.
C20_NoBackgroundToken ==
  (tr_pc = "done" /\ tr_spec = WetlandsSpec) =>
    \A k \in DOMAIN tr_ret :
      Name_background \notin Range(Tokens(tr_ret[k].key, Len(tr_ret[k].key)))

---------------------------------------------------------------------------
(* Claims about the histogram and the tensor of calculate_pixel_trajectories,
   checked under SpecTrajectories. *)

\* the pixels whose derived label is the nonempty label L
PixelsLabelled(L) == {z \in DOMAIN tr_traj : tr_traj[z] # <<>> /\ LabelOf(z) = L}

\* C21: the returned histogram maps every nonempty label to exactly the
\* number of pixels with that label; a pixel with no gain in any year range
\* has an empty label and is not counted, and the empty label is not a key.
C21_HistogramCountsPixelsPerLabel ==
  tr_pc = "done" =>
    /\ \A k \in DOMAIN tr_ret :
         /\ tr_ret[k].key # <<>>
         /\ tr_ret[k].value = Cardinality(PixelsLabelled(tr_ret[k].key))
         /\ \A m \in DOMAIN tr_ret : m # k => tr_ret[m].key # tr_ret[k].key
    /\ \A z \in DOMAIN tr_traj :
         /\ tr_traj[z] # <<>> => \E k \in DOMAIN tr_ret : tr_ret[k].key = LabelOf(z)
         /\ GainedNames(z, Len(tr_diff[1].layers)) = <<>> => tr_traj[z] = <<>>

\* C21 witness: a returned histogram with two labels, one of them counted
\* for two pixels, next to a pixel without any gain.
C21_Witness ==
  /\ tr_pc = "done"
  /\ Len(tr_ret) >= 2
  /\ \E k \in DOMAIN tr_ret : tr_ret[k].value >= 2
  /\ \E z \in DOMAIN tr_traj : tr_traj[z] = <<>>

\* the class indexes with the value 1 for pixel z at transition index n
GainedAt(z, n) == {ci \in DOMAIN tr_array[z] : tr_array[z][ci][n] = 1}

\* C27: in the tensor, for every pixel and every transition index (the
\* first-year seed included) at most one class has the value 1.
C27_AtMostOneClassGained ==
  tr_pc \in {"walk", "save", "done"} =>
    \A z \in DOMAIN tr_array :
      \A n \in DOMAIN tr_array[z][1] : Cardinality(GainedAt(z, n)) <= 1

\* C27 witness: a tensor over three classes in which one pixel gains two
\* different classes at different transition indexes.
C27_Witness ==
  /\ tr_pc = "walk"
  /\ Len(tr_diff) >= 3
  /\ \E z \in DOMAIN tr_array :
       \E n, m \in DOMAIN tr_array[z][1] :
         /\ n # m
         /\ GainedAt(z, n) # {}
         /\ GainedAt(z, m) # {}
         /\ GainedAt(z, n) # GainedAt(z, m)

---------------------------------------------------------------------------
(* Claim about the order of the stages, checked under SpecStages. *)

\* the boolean rasters of every tracked class exist for every input year
BooleanStageFinished ==
  \A k \in DOMAIN tr_spec :
    tr_spec[k].key # 0 =>
      \E b \in DOMAIN tr_bool :
        /\ tr_bool[b].class_num = tr_spec[k].key
        /\ DOMAIN tr_bool[b].files = DOMAIN tr_folder

\* C23: reclassify_rasters returns only after every task it submitted has
\* finished, and calculate_pixel_trajectories computes no difference before
\* the boolean rasters of every class are written.
C23_StagesAreBarriers ==
  /\ rr_pc = "returned" =>
       \A t \in DOMAIN rr_task : rr_task[t] \in {"done", "failed"}
  /\ tr_pc = "diff" => BooleanStageFinished

\* C23 witness: a parallel batch of two or more tasks has returned, one of
\* its tasks having written its output and another having failed.
C23_Witness ==
  /\ rr_pc = "returned"
  /\ Len(rr_task) >= 2
  /\ \E t, u \in DOMAIN rr_task : rr_task[t] = "done" /\ rr_task[u] = "failed"

---------------------------------------------------------------------------
(* Claim about the arguments of the watcher's callback, checked under
   SpecFilter, whose tasks only ever add to the counter. *)

\* every invocation reports a change, continues from the one before it and
\* reports a larger value than the one before it
CallsChained ==
  \A i \in DOMAIN cn_calls :
    /\ cn_calls[i].new # cn_calls[i].old
    /\ i > 1 => /\ cn_calls[i].old = cn_calls[i - 1].new
                /\ cn_calls[i].new > cn_calls[i - 1].new

\* the old value of the first invocation is the value the watcher read when
\* it started: the start stores that value, and it is kept until it is
\* handed to the first invocation
FirstCallFromStart ==
  /\ (cn_wpc = "start" /\ cn_wpc' = "acquire") => cn_last' = cn_value
  /\ (cn_calls = <<>> /\ cn_wpc \notin {"none", "start"}) =>
        \/ cn_calls' = <<>> /\ cn_last' = cn_last
        \/ Len(cn_calls') = 1 /\ cn_calls'[1].old = cn_last

\* C28: every invocation of the callback has new different from old, the old
\* value of each is the new value of the one before it (the value read when
\* the watcher started, for the first), and the new values strictly increase
\* while the counter is only incremented.
C28_CallsReportEachChangeOnce == []CallsChained /\ [][FirstCallFromStart]_vars

\* C28 witness: the watcher started after a task had counted a feature, and
\* has invoked the callback twice since.
C28_Witness ==
  /\ Len(cn_calls) >= 2
  /\ cn_calls[1].old > 0

---------------------------------------------------------------------------
(* Claim about exceptions in the watcher's polling loop, checked under
   SpecWatcher. *)

\* a step in which an exception is raised inside the polling loop
RaisedInLoop ==
  /\ cn_wpc \in {"acquire", "get", "release", "compare"}
  /\ cn_exc = <<>>
  /\ cn_exc' # <<>>

\* the exception is handled inside the thread and the driver is not touched;
\* nothing is printed for 'Broken pipe', two lines for any other message
HandledInThread ==
  /\ cn_exc'[1].caught
  /\ cn_wpc' = "ended"
  /\ UNCHANGED <<fsVars, gsVars, wkVars>>
  /\ cn_exc'[1].message = "[Errno 32] Broken pipe" => cn_out' = cn_out
  /\ cn_exc'[1].message # "[Errno 32] Broken pipe" =>
       /\ Len(cn_out') = Len(cn_out) + 2
       /\ cn_out'[Len(cn_out') - 1] = <<"\"", cn_exc'[1].message, "\"">>
       /\ cn_out'[Len(cn_out')] = <<"Error in watch_counter: ", cn_exc'[1].message>>

\* a watcher that has stopped stays stopped and invokes no callback
StoppedForGood ==
  cn_wpc = "ended" => (cn_wpc' = "ended" /\ cn_calls' = cn_calls /\ cn_out' = cn_out)

\* C25: an exception raised inside the polling loop, by reading the counter
\* or by the callback, is caught inside the watcher thread: 'Broken pipe' is
\* swallowed silently, any other is printed, and in both cases the watcher
\* stops and makes no further callback.
C25_LoopExceptionsStayInThread ==
  /\ [][RaisedInLoop => HandledInThread]_vars
  /\ [][StoppedForGood]_vars

\* C25 witness: the callback has raised another exception than a broken pipe
\* while the tasks were running; the watcher has printed it and has stopped
\* after an earlier callback.
C25_Witness ==
  /\ cn_wpc = "ended"
  /\ cn_scope = "entered"
  /\ cn_exc # <<>>
  /\ cn_exc[1].caught
  /\ cn_exc[1].message # "[Errno 32] Broken pipe"
  /\ Len(cn_out) = 2
  /\ cn_calls # <<>>

---------------------------------------------------------------------------
(* Claim about assignments that raise while the tensor is filled, checked
   under SpecTensor. *)

\* the pixel at row-major index z of the layer of a class and a year range
DiffPixel(z, class_index, year_range_index) ==
  Flatten(tr_diff[class_index].layers[year_range_index].array)[z]

\* C24: when the assignment of one pixel's value into the tensor raises, the
\* cell keeps 0, every other pixel is still stored at its own row-major
\* index, and the function goes on to return its histogram.
C24_RaisingCellStaysZero ==
  tr_pc \in {"walk", "save", "done"} =>
    \A z \in DOMAIN tr_array :
      \A class_index \in DOMAIN tr_diff :
        \A year_range_index \in DOMAIN tr_diff[class_index].layers :
          tr_array[z][class_index][year_range_index] =
            IF <<z, class_index, year_range_index>> \in tr_faults
              THEN 0
              ELSE DiffPixel(z, class_index, year_range_index)

\* C24 witness: the function has returned a nonempty histogram although the
\* assignment of a pixel with the value 1 raised; a later pixel of the same
\* layer, with the value 1 as well, is stored at its own index.
C24_Witness ==
  /\ tr_pc = "done"
  /\ tr_ret # <<>>
  /\ \E f \in tr_faults :
       /\ DiffPixel(f[1], f[2], f[3]) = 1
       /\ tr_array[f[1]][f[2]][f[3]] = 0
       /\ \E z \in DOMAIN tr_array :
            /\ z > f[1]
            /\ DiffPixel(z, f[2], f[3]) = 1
            /\ tr_array[z][f[2]][f[3]] = 1

---------------------------------------------------------------------------
(* Claim about the files of concurrently running tasks, checked under
   SpecParcels. *)

\* C22: concurrently running calculate_pixel_trajectories tasks, one per
\* parcel feature, use temp folders that no other running task writes to or
\* removes with its final rmtree.
C22_RunningTasksOwnTheirFolders ==
  \A t, u \in Running : t # u => TempFolder(t) # TempFolder(u)

---------------------------------------------------------------------------
(* Claim about the records collected by process_layer, checked under
   SpecLayer. *)

\* the positions in records of the feature with the given id
PositionsOf(id) == {j \in DOMAIN pl_records : pl_records[j].id = id}

\* C26: the records collected by process_layer are in the order of the input
\* layer, whatever order the tasks completed in, and every feature that
\* passes the filter (within any filter geometry, negated when invert is
\* set) is among them exactly once, no other feature being among them.
C26_RecordsKeepLayerOrder ==
  pl_pc = "compiled" =>
    /\ \A j, k \in DOMAIN pl_records : j < k => pl_records[j].id < pl_records[k].id
    /\ \A i \in DOMAIN pl_layer :
         Cardinality(PositionsOf(pl_layer[i].id)) =
           IF (pl_layer[i].within = {}) = pl_invert THEN 1 ELSE 0

\* C26 witness: two tasks completed in the reverse of the order they were
\* submitted in, each passing a feature, and a feature was filtered out.
C26_Witness ==
  /\ pl_pc = "compiled"
  /\ Len(pl_completed) >= 2
  /\ pl_completed[1] > pl_completed[2]
  /\ pl_futures[pl_completed[1]].res # <<>>
  /\ pl_futures[pl_completed[2]].res # <<>>
  /\ Len(pl_records) < Len(pl_layer)

---------------------------------------------------------------------------
(* Claim about the reordered list of the summary stage, checked under
   SpecReorder. *)

\* the entries of summary_data made for the raster of a year
EntriesOf(year) == {k \in DOMAIN ro_summary : ro_summary[k] = year}

\* C29: the summary stage processes every consolidated year exactly once:
\* the reordered list (first year, last year, then the middle years) holds
\* each raster of the sorted list exactly once, for any number of rasters
\* from 1 on.
C29_EveryYearSummarisedOnce ==
  ro_pc = "done" =>
    \A k \in DOMAIN ro_list : Cardinality(EntriesOf(ro_list[k])) = 1

---------------------------------------------------------------------------
(* Claim about the two totals of a row, checked under SpecTotals. *)

RECURSIVE SumOfColumns(_)
\* the sum of the row's pixel counts over a set of classes, an absent
\* column counting as 0
SumOfColumns(classes) ==
  IF classes = {} THEN 0
  ELSE LET c == CHOOSE x \in classes : TRUE
       IN  (IF c \in dt_columns THEN dt_counts[c] ELSE 0) + SumOfColumns(classes \ {c})

\* C30: developed_total is the sum of the pixel counts of the classes 10, 11,
\* 12, 13 and 14, and cropland_and_grassland_total the sum of those of the
\* classes 1 and 3, an absent column counting as 0.
C30_TotalsAreSums ==
  dt_pc = "done" =>
    /\ dt_developed_total = SumOfColumns({10, 11, 12, 13, 14})
    /\ dt_cropland_and_grassland_total = SumOfColumns({1, 3})

=============================================================================
